---- MODULE Spec2Model ----
(***************************************************************************)
(* Configuration resolution and project assembly of create-onchain-agent:  *)
(* the compatibility tables, the network classifier, the route lookups,    *)
(* the .env.local generator, the runtime-config patcher and the two        *)
(* selection handlers (handleNextSelection, handleMcpSelection), the       *)
(* recursive template copy (optimizedCopy) and createVercelAIModel.        *)
(*                                                                         *)
(* JavaScript values are modelled as strings: Undefined stands for the     *)
(* value undefined, Null for null, and a value is truthy when it is        *)
(* neither of them nor the empty string.                                   *)
(***************************************************************************)
EXTENDS Naturals, Sequences, FiniteSets, TLC

VARIABLES
  pc,               \* position of the running function
  framework,        \* argument: Framework
  walletProvider,   \* argument: WalletProviderChoice
  network,          \* argument: Network | undefined
  chainId,          \* argument: string | undefined
  rpcUrl,           \* argument: string | undefined
  modelProvider,    \* argument: string | undefined
  networkFamily,    \* local: result of getNetworkType
  error,            \* message of the Error thrown, or NoError
  answers,          \* initProject: the prompts' answers that are no handler argument
  choices,          \* initProject: the choices of the wallet-provider prompt when shown
  agentkitRouteConfig,   \* local of handleNextSelection
  frameworkRouteConfig,  \* local of handleNextSelection
  mcpConfig,        \* local of handleMcpSelection
  envLines,         \* local of handleNextSelection: the array joined into .env.local
  fs,               \* the text files under the project root: path -> [exists, text]
  dirs,             \* the per-option directories that exist
  configTemplate,   \* the document in the selected claude_desktop_config.json template
  configWritten,    \* the document in <root>/claude_desktop_config.json
  packageJson,      \* the document in <root>/package.json
  srcTree,          \* optimizedCopy: the source tree, entry -> [parent, isDirectory]
  copyOp,           \* optimizedCopy: the state of the copy operation of each entry
  destTree,         \* optimizedCopy: the entries that exist at the destination
  processEnv,       \* createVercelAIModel: process.env, the three API-key variables
  call              \* createVercelAIModel: the arguments and outcome of the latest call

argVars == <<framework, walletProvider, network, chainId, rpcUrl, modelProvider>>
promptVars == <<answers, choices>>
localVars == <<networkFamily, agentkitRouteConfig, frameworkRouteConfig, mcpConfig, envLines>>
diskVars == <<fs, dirs, configTemplate, configWritten, packageJson>>

copyVars == <<srcTree, copyOp, destTree>>
adapterVars == <<processEnv, call>>

vars == <<pc, error, argVars, promptVars, localVars, diskVars, copyVars, adapterVars>>

----------------------------------------------------------------------------
(* JavaScript values *)

Undefined == "<undefined>"
Null == "<null>"
NoError == "<no error>"

\* initProject before any prompt is answered
NoAnswers == [networkFamily |-> Undefined, networkType |-> Undefined, template |-> Undefined]

\* ToBoolean of a string | undefined | null value
Truthy(v) == v # Undefined /\ v # Null /\ v # ""

Range(s) == {s[i] : i \in DOMAIN s}

\* Array.prototype.includes
Includes(arr, v) == \E i \in DOMAIN arr : arr[i] = v

----------------------------------------------------------------------------
(* constants.ts: the compatibility registry *)

EVM_NETWORKS ==
  <<"base-mainnet", "base-sepolia", "ethereum-mainnet", "ethereum-sepolia",
    "arbitrum-mainnet", "arbitrum-sepolia", "optimism-mainnet", "optimism-sepolia",
    "polygon-mainnet", "polygon-mumbai">>

SVM_NETWORKS == <<"solana-mainnet", "solana-devnet", "solana-testnet">>

Networks == EVM_NETWORKS \o SVM_NETWORKS

CDP_SUPPORTED_EVM_WALLET_PROVIDERS == <<"CDPSmartWallet", "CDPEvmWallet", "Viem", "Privy">>

SVM_WALLET_PROVIDERS == <<"CDPSolanaWallet", "SolanaKeypair", "Privy">>

NON_CDP_SUPPORTED_EVM_WALLET_PROVIDERS == <<"Viem", "Privy">>

\* solana-testnet given the list of a non-CDP EVM network
NetworkToWalletProviders_SolanaTestnetEvm(n) ==
  IF n \in {"arbitrum-mainnet", "base-mainnet", "base-sepolia", "ethereum-mainnet",
            "polygon-mainnet"}
  THEN CDP_SUPPORTED_EVM_WALLET_PROVIDERS
  ELSE IF n \in {"solana-mainnet", "solana-devnet"}
  THEN SVM_WALLET_PROVIDERS
  ELSE NON_CDP_SUPPORTED_EVM_WALLET_PROVIDERS

\* base-sepolia moved to the networks without CDP support
NetworkToWalletProviders_BaseSepoliaNonCdp(n) ==
  CASE n \in {"arbitrum-mainnet", "base-mainnet", "ethereum-mainnet", "polygon-mainnet"}
         -> CDP_SUPPORTED_EVM_WALLET_PROVIDERS
    [] n \in {"arbitrum-sepolia", "base-sepolia", "ethereum-sepolia", "optimism-mainnet",
              "optimism-sepolia", "polygon-mumbai"}
         -> NON_CDP_SUPPORTED_EVM_WALLET_PROVIDERS
    [] n \in {"solana-mainnet", "solana-devnet", "solana-testnet"}
         -> SVM_WALLET_PROVIDERS

NetworkToWalletProviders(n) ==
  CASE n = "arbitrum-mainnet" -> CDP_SUPPORTED_EVM_WALLET_PROVIDERS
    [] n = "arbitrum-sepolia" -> NON_CDP_SUPPORTED_EVM_WALLET_PROVIDERS
    [] n = "base-mainnet"     -> CDP_SUPPORTED_EVM_WALLET_PROVIDERS
    [] n = "base-sepolia"     -> CDP_SUPPORTED_EVM_WALLET_PROVIDERS
    [] n = "ethereum-mainnet" -> CDP_SUPPORTED_EVM_WALLET_PROVIDERS
    [] n = "ethereum-sepolia" -> NON_CDP_SUPPORTED_EVM_WALLET_PROVIDERS
    [] n = "optimism-mainnet" -> NON_CDP_SUPPORTED_EVM_WALLET_PROVIDERS
    [] n = "optimism-sepolia" -> NON_CDP_SUPPORTED_EVM_WALLET_PROVIDERS
    [] n = "polygon-mainnet"  -> CDP_SUPPORTED_EVM_WALLET_PROVIDERS
    [] n = "polygon-mumbai"   -> NON_CDP_SUPPORTED_EVM_WALLET_PROVIDERS
    [] n = "solana-mainnet"   -> SVM_WALLET_PROVIDERS
    [] n = "solana-devnet"    -> SVM_WALLET_PROVIDERS
    [] n = "solana-testnet"   -> SVM_WALLET_PROVIDERS

\* the distinct members of the three provider lists
WalletProviderChoices ==
  Range(CDP_SUPPORTED_EVM_WALLET_PROVIDERS) \cup Range(NON_CDP_SUPPORTED_EVM_WALLET_PROVIDERS)
    \cup Range(SVM_WALLET_PROVIDERS)

AgentkitRouteConfigurations ==
  [EVM |->
     [CDPEvmWallet |->
        [env |-> [topComments |-> <<"Get keys from CDP Portal: https://portal.cdp.coinbase.com/">>,
                  required |-> <<"CDP_API_KEY_ID", "CDP_API_KEY_SECRET", "CDP_WALLET_SECRET">>,
                  optional |-> <<"RPC_URL">>],
         prepareAgentkitRoute |-> "evm/cdp/prepare-agentkit.ts"],
      Viem |->
        [env |-> [topComments |-> <<"Export private key from your Ethereum wallet and save",
                                    "Get keys from CDP Portal: https://portal.cdp.coinbase.com/">>,
                  required |-> <<"PRIVATE_KEY">>,
                  optional |-> <<"CDP_API_KEY_ID", "CDP_API_KEY_SECRET", "RPC_URL">>],
         prepareAgentkitRoute |-> "evm/viem/prepare-agentkit.ts"],
      Privy |->
        [env |-> [topComments |-> <<"Get keys from Privy Dashboard: https://dashboard.privy.io/",
                                    "Get keys from CDP Portal: https://portal.cdp.coinbase.com/">>,
                  required |-> <<"PRIVY_APP_ID", "PRIVY_APP_SECRET">>,
                  optional |-> <<"CHAIN_ID", "PRIVY_WALLET_ID",
                                 "PRIVY_WALLET_AUTHORIZATION_PRIVATE_KEY",
                                 "PRIVY_WALLET_AUTHORIZATION_KEY_ID",
                                 "CDP_API_KEY_ID", "CDP_API_KEY_SECRET">>],
         prepareAgentkitRoute |-> "evm/privy/prepare-agentkit.ts"],
      CDPSmartWallet |->
        [env |-> [topComments |-> <<"Get keys from CDP Portal: https://portal.cdp.coinbase.com/",
                                    "Optionally provide a private key, otherwise one will be generated">>,
                  required |-> <<"CDP_API_KEY_ID", "CDP_API_KEY_SECRET", "CDP_WALLET_SECRET">>,
                  optional |-> <<"PAYMASTER_URL", "RPC_URL">>],
         prepareAgentkitRoute |-> "evm/smart/prepare-agentkit.ts"]],
   CUSTOM_EVM |->
     [Viem |->
        [env |-> [topComments |-> <<"Export private key from your Ethereum wallet and save",
                                    "Get keys from CDP Portal: https://portal.cdp.coinbase.com/">>,
                  required |-> <<"PRIVATE_KEY">>,
                  optional |-> <<"CDP_API_KEY_ID", "CDP_API_KEY_SECRET">>],
         prepareAgentkitRoute |-> "custom-evm/viem/prepare-agentkit.ts"]],
   SVM |->
     [CDPSolanaWallet |->
        [env |-> [topComments |-> <<"Get keys from CDP Portal: https://portal.cdp.coinbase.com/">>,
                  required |-> <<"CDP_API_KEY_ID", "CDP_API_KEY_SECRET", "CDP_WALLET_SECRET">>,
                  optional |-> <<>>],
         prepareAgentkitRoute |-> "svm/cdp/prepare-agentkit.ts"],
      SolanaKeypair |->
        [env |-> [topComments |-> <<"Export private key from your Solana wallet and save",
                                    "Get keys from CDP Portal: https://portal.cdp.coinbase.com/">>,
                  required |-> <<"SOLANA_PRIVATE_KEY">>,
                  optional |-> <<"SOLANA_RPC_URL", "CDP_API_KEY_ID", "CDP_API_KEY_SECRET">>],
         prepareAgentkitRoute |-> "svm/solanaKeypair/prepare-agentkit.ts"],
      Privy |->
        [env |-> [topComments |-> <<"Get keys from Privy Dashboard: https://dashboard.privy.io/",
                                    "Get keys from CDP Portal: https://portal.cdp.coinbase.com/">>,
                  required |-> <<"PRIVY_APP_ID", "PRIVY_APP_SECRET">>,
                  optional |-> <<"PRIVY_WALLET_ID", "PRIVY_WALLET_AUTHORIZATION_PRIVATE_KEY",
                                 "PRIVY_WALLET_AUTHORIZATION_KEY_ID",
                                 "CDP_API_KEY_ID", "CDP_API_KEY_SECRET">>],
         prepareAgentkitRoute |-> "svm/privy/prepare-agentkit.ts"]]]

Frameworks == <<"Langchain", "Vercel AI SDK", "Model Context Protocol">>

Templates == <<"next", "mcp", "prepareAgentkit", "createAgent">>

FrameworkToTemplates ==
  [f \in Range(Frameworks) |->
     IF f = "Model Context Protocol" THEN <<"mcp">> ELSE <<"next">>]

NextTemplateRouteConfigurations ==
  [f \in {"Langchain", "Vercel AI SDK"} |->
     IF f = "Langchain"
     THEN [apiRoute |-> "langchain/route.ts",
           createAgentRoute |-> "langchain/create-agent.ts"]
     ELSE [apiRoute |-> "vercel-ai-sdk/route.ts",
           createAgentRoute |-> "vercel-ai-sdk/create-agent.ts"]]

MCPRouteConfigurations ==
  [EVM |->
     [CDPEvmWallet |-> [getAgentkitRoute |-> "evm/cdp/getAgentKit.ts",
                        configRoute |-> "evm/cdp/claude_desktop_config.json"],
      Viem |-> [getAgentkitRoute |-> "evm/viem/getAgentKit.ts",
                configRoute |-> "evm/viem/claude_desktop_config.json"],
      Privy |-> [getAgentkitRoute |-> "evm/privy/getAgentKit.ts",
                 configRoute |-> "evm/privy/claude_desktop_config.json"],
      CDPSmartWallet |-> [getAgentkitRoute |-> "evm/smart/getAgentKit.ts",
                          configRoute |-> "evm/smart/claude_desktop_config.json"]],
   CUSTOM_EVM |->
     [Viem |-> [getAgentkitRoute |-> "custom-evm/viem/getAgentKit.ts",
                configRoute |-> "custom-evm/viem/claude_desktop_config.json"]],
   SVM |->
     [CDPSolanaWallet |-> [getAgentkitRoute |-> "svm/cdp/getAgentKit.ts",
                           configRoute |-> "svm/cdp/claude_desktop_config.json"],
      SolanaKeypair |-> [getAgentkitRoute |-> "svm/solana-keypair/getAgentKit.ts",
                         configRoute |-> "svm/solana-keypair/claude_desktop_config.json"],
      Privy |-> [getAgentkitRoute |-> "svm/privy/getAgentKit.ts",
                 configRoute |-> "svm/privy/claude_desktop_config.json"]]]

PrepareAgentkitRouteConfigurations ==
  [EVM |->
     [CDPEvmWallet |-> [route |-> "evm/cdp/prepareAgentkit.ts"],
      Viem |-> [route |-> "evm/viem/prepareAgentkit.ts"],
      Privy |-> [route |-> "evm/privy/prepareAgentkit.ts"],
      CDPSmartWallet |-> [route |-> "evm/smart/prepareAgentkit.ts"]],
   CUSTOM_EVM |->
     [Viem |-> [route |-> "custom-evm/viem/prepareAgentkit.ts"]],
   SVM |->
     [CDPSolanaWallet |-> [route |-> "svm/cdp/prepareAgentkit.ts"],
      SolanaKeypair |-> [route |-> "svm/solana-keypair/prepareAgentkit.ts"],
      Privy |-> [route |-> "svm/privy/prepareAgentkit.ts"]]]

ModelProviders == <<"OpenAI", "Gemini", "Anthropic">>

DefaultModels ==
  [OpenAI |-> "gpt-4", Gemini |-> "gemini-2.5-flash-lite",
   Anthropic |-> "claude-3-5-sonnet-20241022"]

----------------------------------------------------------------------------
(* utils: getNetworkType *)

getNetworkType_ChainIdFirst(net, cid) ==
  IF Truthy(cid) THEN "CUSTOM_EVM"
  ELSE IF Truthy(net) /\ Includes(EVM_NETWORKS, net) THEN "EVM"
  ELSE IF Truthy(net) /\ Includes(SVM_NETWORKS, net) THEN "SVM"
  ELSE Null

getNetworkType(net, cid) ==
  IF Truthy(net) /\ Includes(EVM_NETWORKS, net) THEN "EVM"
  ELSE IF Truthy(net) /\ Includes(SVM_NETWORKS, net) THEN "SVM"
  ELSE IF Truthy(cid) THEN "CUSTOM_EVM"
  ELSE Null

getWalletProviders(net) ==
  IF Truthy(net) THEN NetworkToWalletProviders(net)
  ELSE NON_CDP_SUPPORTED_EVM_WALLET_PROVIDERS

----------------------------------------------------------------------------
(* The chain-id tables *)

\* Record<number, string>; its keys are held as the strings String(chainId) gives
CHAIN_ID_TO_NETWORK_ID ==
  ("1" :> "ethereum-mainnet") @@ ("11155111" :> "ethereum-sepolia")
    @@ ("137" :> "polygon-mainnet") @@ ("80001" :> "polygon-mumbai")
    @@ ("8453" :> "base-mainnet") @@ ("84532" :> "base-sepolia")
    @@ ("42161" :> "arbitrum-mainnet") @@ ("421614" :> "arbitrum-sepolia")
    @@ ("10" :> "optimism-mainnet") @@ ("11155420" :> "optimism-sepolia")

\* NETWORK_ID_TO_CHAIN_ID[networkId]: the entries reversed, undefined without an entry
NETWORK_ID_TO_CHAIN_ID(networkId) ==
  IF \E c \in DOMAIN CHAIN_ID_TO_NETWORK_ID : CHAIN_ID_TO_NETWORK_ID[c] = networkId
  THEN CHOOSE c \in DOMAIN CHAIN_ID_TO_NETWORK_ID : CHAIN_ID_TO_NETWORK_ID[c] = networkId
  ELSE Undefined

----------------------------------------------------------------------------
(* Text.  A file's text is the sequence of its lines.  An array element     *)
(* that is joined into a text is the sequence of the lines it holds: one    *)
(* line, or more when the element contains line breaks.                     *)

Line(str) == <<str>>

\* "\n" followed by str: an empty line, then str
NewlineThen(str) == <<"", str>>

RECURSIVE JoinLines(_)
\* Array.prototype.join("\n"), as lines
JoinLines(arr) == IF arr = <<>> THEN <<>> ELSE Head(arr) \o JoinLines(Tail(arr))

\* property lookup on a table object: undefined when the key is absent
UndefinedConfig == [undefined |-> TRUE]

Lookup(table, key) == IF key \in DOMAIN table THEN table[key] ELSE UndefinedConfig

----------------------------------------------------------------------------
(* getModelProviderEnvConfig *)

getModelProviderEnvConfig_GeminiFallsThrough(mp) ==
  LET provider == IF mp = Undefined THEN "OpenAI" ELSE mp
  IN CASE provider = "Gemini" ->
            <<"# Google Gemini Configuration",
              "# Get keys from Google AI Studio: https://aistudio.google.com/app/apikey",
              "GEMINI_API_KEY=",
              "GEMINI_MODEL=" \o DefaultModels.Gemini,
              "# Anthropic Configuration",
              "# Get keys from Anthropic Console: https://console.anthropic.com/",
              "ANTHROPIC_API_KEY=",
              "ANTHROPIC_MODEL=" \o DefaultModels.Anthropic>>
       [] provider = "Anthropic" ->
            <<"# Anthropic Configuration",
              "# Get keys from Anthropic Console: https://console.anthropic.com/",
              "ANTHROPIC_API_KEY=",
              "ANTHROPIC_MODEL=" \o DefaultModels.Anthropic>>
       [] OTHER ->
            <<"# OpenAI Configuration",
              "# Get keys from OpenAI Platform: https://platform.openai.com/api-keys",
              "OPENAI_API_KEY=",
              "OPENAI_MODEL=" \o DefaultModels.OpenAI>>

getModelProviderEnvConfig(mp) ==
  \* the default parameter value replaces undefined only
  LET provider == IF mp = Undefined THEN "OpenAI" ELSE mp
  IN CASE provider = "OpenAI" ->
            <<"# OpenAI Configuration",
              "# Get keys from OpenAI Platform: https://platform.openai.com/api-keys",
              "OPENAI_API_KEY=",
              "OPENAI_MODEL=" \o DefaultModels.OpenAI>>
       [] provider = "Gemini" ->
            <<"# Google Gemini Configuration",
              "# Get keys from Google AI Studio: https://aistudio.google.com/app/apikey",
              "GEMINI_API_KEY=",
              "GEMINI_MODEL=" \o DefaultModels.Gemini>>
       [] provider = "Anthropic" ->
            <<"# Anthropic Configuration",
              "# Get keys from Anthropic Console: https://console.anthropic.com/",
              "ANTHROPIC_API_KEY=",
              "ANTHROPIC_MODEL=" \o DefaultModels.Anthropic>>
       [] OTHER ->
            <<"# OpenAI Configuration",
              "# Get keys from OpenAI Platform: https://platform.openai.com/api-keys",
              "OPENAI_API_KEY=",
              "OPENAI_MODEL=" \o DefaultModels.OpenAI>>

----------------------------------------------------------------------------
(* handleNextSelection: the array envLines *)

CommentLine(comment) == Line("# " \o comment)

\* the name alone, without the assignment
AssignEmpty_NameOnly(name) == Line(name)

AssignEmpty(name) == Line(name \o "=")

BuildEnvLines(routeConfig, net, cid, rpc, mp) ==
  LET modelProviderConfig == getModelProviderEnvConfig(mp)
      topComments == routeConfig.env.topComments
      required == routeConfig.env.required
      optional == routeConfig.env.optional
  IN [i \in DOMAIN modelProviderConfig |-> Line(modelProviderConfig[i])]
       \o <<Line("")>>
       \o [i \in DOMAIN topComments |-> CommentLine(topComments[i])]
       \o <<NewlineThen("# Required")>>
       \o [i \in DOMAIN required |-> AssignEmpty(required[i])]
       \o <<NewlineThen("# Optional")>>
       \* network ?? "": only undefined and null give the empty string
       \o <<Line("NETWORK_ID=" \o (IF net \in {Undefined, Null} THEN "" ELSE net))>>
       \o (IF Truthy(rpc) THEN <<Line("RPC_URL=" \o rpc)>> ELSE <<>>)
       \o (IF Truthy(cid) THEN <<Line("CHAIN_ID=" \o cid)>> ELSE <<>>)
       \o [i \in DOMAIN optional |-> AssignEmpty(optional[i])]

----------------------------------------------------------------------------
(* Paths and files *)

root == "/home/user/onchain-agent"

\* path.join of two segments
PathJoin(a, b) == a \o "/" \o b

agentDir == PathJoin(PathJoin(PathJoin(root, "app"), "api"), "agent")
srcDir == PathJoin(root, "src")
envPath == PathJoin(root, ".env.local")

NoFile == [exists |-> FALSE, text |-> <<>>]
File(text) == [exists |-> TRUE, text |-> text]

\* property read on an object: undefined when the key is absent
Get(obj, key) == IF key \in DOMAIN obj THEN obj[key] ELSE Undefined

\* property assignment on an object: the key is added or its value replaced
Put(obj, key, val) == (key :> val) @@ obj

EmptyObject == [k \in {} |-> ""]

----------------------------------------------------------------------------
(* copyAndReplaceConfig: the patch of the parsed claude_desktop_config.json *)

Placeholder == "{absolutePath}"

RECURSIVE ReplaceFirst(_, _, _)
\* String.prototype.replace(pattern: string, by) on a string held as its pieces:
\* the first occurrence only
ReplaceFirst(pieces, pattern, by) ==
  IF pieces = <<>> THEN <<>>
  ELSE IF Head(pieces) = pattern THEN <<by>> \o Tail(pieces)
  ELSE <<Head(pieces)>> \o ReplaceFirst(Tail(pieces), pattern, by)

\* String.prototype.toUpperCase on the model-provider names
ToUpperCase(str) ==
  CASE str = "OpenAI" -> "OPENAI"
    [] str = "Gemini" -> "GEMINI"
    [] str = "Anthropic" -> "ANTHROPIC"
    [] str = "Mistral" -> "MISTRAL"
    [] OTHER -> str

PatchModelProvider(env, mp) ==
  IF Truthy(mp)
  THEN Put(Put(env, ToUpperCase(mp) \o "_API_KEY", ""),
           ToUpperCase(mp) \o "_MODEL",
           IF mp \in DOMAIN DefaultModels THEN DefaultModels[mp] ELSE "")
  ELSE env

PatchNetwork(env, net) ==
  IF Truthy(net)
  THEN LET e == IF Truthy(Get(env, "NETWORK_ID")) THEN Put(env, "NETWORK_ID", net) ELSE env
       IN IF Truthy(Get(e, "CHAIN_ID"))
          THEN Put(e, "CHAIN_ID", NETWORK_ID_TO_CHAIN_ID(net))
          ELSE e
  ELSE env

\* CHAIN_ID overwritten only where the template has the key
PatchChainId_OnlyExistingKey(env, cid) ==
  IF Truthy(cid) /\ "CHAIN_ID" \in DOMAIN env THEN Put(env, "CHAIN_ID", cid) ELSE env

PatchChainId(env, cid) == IF Truthy(cid) THEN Put(env, "CHAIN_ID", cid) ELSE env

\* the explicit chainId applied before the network translation instead of after it
PatchConfig_ChainIdBeforeNetwork(configJson, mp, net, cid) ==
  [configJson EXCEPT
     !.mcpServers.agentkit.args[1] = ReplaceFirst(@, Placeholder, root),
     !.mcpServers.agentkit.env = PatchNetwork(PatchChainId(PatchModelProvider(@, mp), cid), net)]

PatchConfig(configJson, mp, net, cid) ==
  [configJson EXCEPT
     !.mcpServers.agentkit.args[1] = ReplaceFirst(@, Placeholder, root),
     !.mcpServers.agentkit.env = PatchChainId(PatchNetwork(PatchModelProvider(@, mp), net), cid)]

\* JSON.stringify then the file's content: a property whose value is undefined is left out
Stringify(configJson) ==
  [configJson EXCEPT
     !.mcpServers.agentkit.env = [k \in {x \in DOMAIN @ : @[x] # Undefined} |-> @[k]]]

----------------------------------------------------------------------------
(* updatePackageJsonWithModelProvider *)

providerDependencies ==
  [OpenAI |-> ("@langchain/openai" :> "^1.2.2") @@ ("@ai-sdk/openai" :> "^3.0.12"),
   Gemini |-> ("@langchain/google-genai" :> "^2.1.10") @@ ("@ai-sdk/google" :> "^3.0.10"),
   Anthropic |-> ("@langchain/anthropic" :> "^1.3.10") @@ ("@ai-sdk/anthropic" :> "^3.0.15")]

\* the dependencies mapping replaced by the provider's pairs
UpdatedPackageJson_ReplacesDependencies(doc, mp) ==
  LET provider == IF mp = Undefined THEN "OpenAI" ELSE mp
  IN Put(doc, "dependencies",
         IF provider \in DOMAIN providerDependencies
         THEN providerDependencies[provider] ELSE providerDependencies.OpenAI)

UpdatedPackageJson(doc, mp) ==
  LET provider == IF mp = Undefined THEN "OpenAI" ELSE mp
      dependencies == IF provider \in DOMAIN providerDependencies
                      THEN providerDependencies[provider]
                      ELSE providerDependencies.OpenAI
      before == IF "dependencies" \in DOMAIN doc THEN doc.dependencies ELSE EmptyObject
  IN Put(doc, "dependencies", dependencies @@ before)

----------------------------------------------------------------------------
(* updateCreateAgentWithModelProvider.  The source text of create-agent.ts  *)
(* is held as the sequence of its statements; a regular expression of the   *)
(* rewriter matches a statement as a whole or not at all.                   *)

GuardText(envVar, envKey) ==
  "if (!" \o envVar \o ") {\n    throw new Error(\"I need an " \o envKey
    \o " in your .env file to power my intelligence.\");\n  }"

langchainConfig ==
  [OpenAI |->
     [import |-> "import { ChatOpenAI } from \"@langchain/openai\";",
      constructor |-> "const llm = new ChatOpenAI({ model: \"gpt-4o-mini\" });",
      envKey |-> "OPENAI_API_KEY", envVar |-> "process.env.OPENAI_API_KEY"],
   Gemini |->
     [import |-> "import { ChatGoogleGenerativeAI } from \"@langchain/google-genai\";",
      constructor |-> "const llm = new ChatGoogleGenerativeAI({ model: \"gemini-pro\" });",
      envKey |-> "GEMINI_API_KEY", envVar |-> "process.env.GEMINI_API_KEY"],
   Anthropic |->
     [import |-> "import { ChatAnthropic } from \"@langchain/anthropic\";",
      constructor |-> "const llm = new ChatAnthropic({ model: \"claude-3-5-sonnet-20241022\" });",
      envKey |-> "ANTHROPIC_API_KEY", envVar |-> "process.env.ANTHROPIC_API_KEY"]]

vercelConfig ==
  [OpenAI |->
     [import |-> "import { openai } from \"@ai-sdk/openai\";",
      constructor |-> "const model = openai(\"gpt-4o-mini\");",
      envKey |-> "OPENAI_API_KEY", envVar |-> "process.env.OPENAI_API_KEY"],
   Gemini |->
     [import |-> "import { google } from \"@ai-sdk/google\";",
      constructor |-> "const model = google(\"gemini-pro\");",
      envKey |-> "GOOGLE_GENERATIVE_AI_API_KEY",
      envVar |-> "process.env.GOOGLE_GENERATIVE_AI_API_KEY"],
   Anthropic |->
     [import |-> "import { anthropic } from \"@ai-sdk/anthropic\";",
      constructor |-> "const model = anthropic(\"claude-3-5-sonnet-20241022\");",
      envKey |-> "ANTHROPIC_API_KEY", envVar |-> "process.env.ANTHROPIC_API_KEY"]]

LanggraphImport == "import { createReactAgent } from \"@langchain/langgraph/prebuilt\";"

\* the graph-orchestration branch taken whatever the source imports
IncludesLanggraph_Always(content) == TRUE

\* content.includes("@langchain/langgraph")
IncludesLanggraph(content) == Includes(content, LanggraphImport)

\* content.includes("@ai-sdk/openai")
IncludesAiSdkOpenai(content) == Includes(content, vercelConfig.OpenAI.import)

\* /import\s+{\s*Chat\w+\s*}\s+from\s+["']@langchain\/\w+["'];/ : \w+ stops at the
\* hyphen of google-genai
MatchesLangchainImport(stmt) ==
  stmt \in {langchainConfig.OpenAI.import, langchainConfig.Anthropic.import}

\* /if\s+\(!process\.env\.OPENAI_API_KEY\)\s*{\s*throw\s+new\s+Error\([^)]+\);\s*}/
MatchesApiKeyCheck(stmt) ==
  stmt = GuardText("process.env.OPENAI_API_KEY", "OPENAI_API_KEY")

\* /const\s+llm\s*=\s*new\s+Chat\w+\s*\(\s*{\s*model\s*:\s*["'][^"']+["']\s*}\s*\);/
MatchesLlmInstantiation(stmt) ==
  stmt \in {langchainConfig[m].constructor : m \in DOMAIN langchainConfig}

\* /import\s+{\s*\w+\s*}\s+from\s+["']@ai-sdk\/\w+["'];/
MatchesAiSdkImport(stmt) ==
  stmt \in {vercelConfig[m].import : m \in DOMAIN vercelConfig}

\* /const\s+model\s*=\s*\w+\s*\(\s*["'][^"']+["']\s*\);/
MatchesModelInstantiation(stmt) ==
  stmt \in {vercelConfig[m].constructor : m \in DOMAIN vercelConfig}

\* every match replaced, as with the g flag
ReplaceFirstMatch_EveryMatch(content, matches, by) ==
  [i \in DOMAIN content |-> IF i \in matches THEN by ELSE content[i]]

\* String.prototype.replace(pattern: RegExp without the g flag, by), matches being the
\* places of content the pattern matches at
ReplaceFirstMatch(content, matches, by) ==
  IF matches = {} THEN content
  ELSE [content EXCEPT ![CHOOSE i \in matches : \A j \in matches : i <= j] = by]

\* a rewriter that leaves the file as the template had it
UpdatedCreateAgent_Unchanged(content, mp) == content

UpdatedCreateAgent(content, mp) ==
  LET provider == IF mp = Undefined THEN "OpenAI" ELSE mp
  IN IF IncludesLanggraph(content)
     THEN LET config == IF provider \in DOMAIN langchainConfig
                        THEN langchainConfig[provider] ELSE langchainConfig.OpenAI
              c1 == ReplaceFirstMatch(content,
                                      {i \in DOMAIN content : MatchesLangchainImport(content[i])},
                                      config.import)
              c2 == ReplaceFirstMatch(c1, {i \in DOMAIN c1 : MatchesApiKeyCheck(c1[i])},
                                      GuardText(config.envVar, config.envKey))
          IN ReplaceFirstMatch(c2, {i \in DOMAIN c2 : MatchesLlmInstantiation(c2[i])},
                               config.constructor)
     ELSE IF IncludesAiSdkOpenai(content)
     THEN LET config == IF provider \in DOMAIN vercelConfig
                        THEN vercelConfig[provider] ELSE vercelConfig.OpenAI
              c1 == ReplaceFirstMatch(content,
                                      {i \in DOMAIN content : MatchesAiSdkImport(content[i])},
                                      config.import)
              c2 == ReplaceFirstMatch(c1, {i \in DOMAIN c1 : MatchesApiKeyCheck(c1[i])},
                                      GuardText(config.envVar, config.envKey))
          IN ReplaceFirstMatch(c2, {i \in DOMAIN c2 : MatchesModelInstantiation(c2[i])},
                               config.constructor)
     ELSE content

----------------------------------------------------------------------------
(* The template trees as copyTemplate leaves them under the project root.   *)

AgentkitRoutes ==
  UNION {{AgentkitRouteConfigurations[fam][wp].prepareAgentkitRoute :
            wp \in DOMAIN AgentkitRouteConfigurations[fam]} :
         fam \in DOMAIN AgentkitRouteConfigurations}

\* the text of a variant file names the variant
VariantText(dir, route) == <<"// " \o PathJoin(dir, route)>>

LangchainCreateAgentText ==
  <<langchainConfig.OpenAI.import,
    LanggraphImport,
    GuardText("process.env.OPENAI_API_KEY", "OPENAI_API_KEY"),
    langchainConfig.OpenAI.constructor,
    "const agent = createReactAgent({ llm, tools });">>

VercelCreateAgentText ==
  <<vercelConfig.OpenAI.import,
    "import { getVercelAITools } from \"@coinbase/agentkit-vercel-ai-sdk\";",
    GuardText("process.env.OPENAI_API_KEY", "OPENAI_API_KEY"),
    vercelConfig.OpenAI.constructor,
    "const tools = getVercelAITools(agentkit);">>

PackageJsonTemplate ==
  [name |-> "onchain-agent",
   dependencies |-> ("next" :> "^15.0.0") @@ ("@langchain/openai" :> "^0.3.0")]

----------------------------------------------------------------------------
(* Inputs *)

\* the Network values, no network, the empty string and an unrecognized name
NetworkInputs == Range(Networks) \cup {Undefined, "", "unknown-net"}

\* no chain id, the empty string and chain ids (one of them a known network's)
ChainIdInputs == {Undefined, "", "31337", "8453"}

\* the arguments the two handlers are called with
NetworkArgs == Range(Networks) \cup {Undefined, "unknown-net"}
ChainIdArgs == {Undefined, "31337"}
RpcUrlArgs == {Undefined, "http://localhost:8545"}
ModelProviderArgs == Range(ModelProviders) \cup {Undefined, "Mistral"}

NoConfig == [absent |-> TRUE]

NoLocals ==
  /\ agentkitRouteConfig = UndefinedConfig
  /\ frameworkRouteConfig = UndefinedConfig
  /\ mcpConfig = UndefinedConfig
  /\ envLines = <<>>

NoDisk ==
  /\ fs = EmptyObject
  /\ dirs = {}
  /\ configTemplate = NoConfig
  /\ configWritten = NoConfig
  /\ packageJson = NoConfig

\* no assembly is under way
NoAssembly ==
  /\ framework = Undefined
  /\ walletProvider = Undefined
  /\ network = Undefined
  /\ chainId = Undefined
  /\ rpcUrl = Undefined
  /\ modelProvider = Undefined
  /\ networkFamily = Undefined
  /\ answers = NoAnswers
  /\ choices = <<>>
  /\ NoLocals
  /\ NoDisk

\* no copy is under way
NoCopy ==
  /\ srcTree = EmptyObject
  /\ copyOp = EmptyObject
  /\ destTree = {}

NoCall == [made |-> FALSE]

\* createVercelAIModel has not been called
NoAdapter ==
  /\ processEnv = EmptyObject
  /\ call = NoCall

----------------------------------------------------------------------------
(* Specification SpecClassify: getNetworkType applied to every input *)

InitClassify ==
  /\ pc = "classify"
  /\ network \in NetworkInputs
  /\ chainId \in ChainIdInputs
  /\ networkFamily = Undefined
  /\ framework = Undefined
  /\ walletProvider = Undefined
  /\ rpcUrl = Undefined
  /\ modelProvider = Undefined
  /\ error = NoError
  /\ answers = NoAnswers
  /\ choices = <<>>
  /\ NoLocals
  /\ NoDisk
  /\ NoCopy
  /\ NoAdapter

Classify ==
  /\ pc = "classify"
  /\ networkFamily' = getNetworkType(network, chainId)
  /\ pc' = "classified"
  /\ UNCHANGED <<copyVars, adapterVars>>
  /\ UNCHANGED <<argVars, error, promptVars, agentkitRouteConfig, frameworkRouteConfig,
                 mcpConfig, envLines, diskVars>>

NextClassify == Classify

SpecClassify == InitClassify /\ [][NextClassify]_vars

----------------------------------------------------------------------------
(* initProject: the prompts that build the selection.  A prompt whose type  *)
(* is null is skipped and leaves its answer undefined.                      *)

\* n.includes("mainnet") over the EVM networks
IncludesMainnet(n) ==
  n \in {"base-mainnet", "ethereum-mainnet", "arbitrum-mainnet", "optimism-mainnet",
         "polygon-mainnet"}

\* texts typed at the chain-id prompt and at the RPC-URL prompt
ChainIdTexts == {"", "0", "chain", "31337", "8453"}
RpcUrlTexts == {"", "ws://localhost:8546", "http://localhost:8545"}

\* value.trim() ? (Number.parseInt(value) ? true : message) : message
ValidChainId(value) == value # "" /\ value \notin {"0", "chain"}

\* value.trim() ? (value.startsWith("http") ? true : message) : message
ValidRpcUrl(value) == value # "" /\ value \in {"http://localhost:8545"}

IsCustom == answers.networkFamily = "EVM" /\ answers.networkType = "custom"

InitPrompt ==
  /\ pc = "promptFramework"
  /\ framework = Undefined
  /\ walletProvider = Undefined
  /\ network = Undefined
  /\ chainId = Undefined
  /\ rpcUrl = Undefined
  /\ modelProvider = Undefined
  /\ networkFamily = Undefined
  /\ error = NoError
  /\ answers = NoAnswers
  /\ choices = <<>>
  /\ NoLocals
  /\ NoDisk
  /\ NoCopy
  /\ NoAdapter

PromptFramework ==
  /\ pc = "promptFramework"
  /\ \E f \in Range(Frameworks) :
       /\ framework' = f
       \* the template prompt is shown only for a framework with several templates
       /\ IF Len(FrameworkToTemplates[f]) > 1
          THEN \E t \in Range(FrameworkToTemplates[f]) :
                 answers' = [answers EXCEPT !.template = t]
          ELSE answers' = answers
  /\ pc' = "promptNetworkFamily"
  /\ UNCHANGED <<walletProvider, network, chainId, rpcUrl, modelProvider, networkFamily,
                 error, choices>>
  /\ UNCHANGED <<copyVars, adapterVars>>
  /\ UNCHANGED <<agentkitRouteConfig, frameworkRouteConfig, mcpConfig, envLines, diskVars>>

PromptNetworkFamily ==
  /\ pc = "promptNetworkFamily"
  /\ \E fam \in {"EVM", "SVM"} :
       /\ answers' = [answers EXCEPT !.networkFamily = fam]
       /\ pc' = IF fam = "EVM" THEN "promptNetworkType" ELSE "promptNetwork"
  /\ UNCHANGED <<framework, walletProvider, network, chainId, rpcUrl, modelProvider,
                 networkFamily, error, choices>>
  /\ UNCHANGED <<copyVars, adapterVars>>
  /\ UNCHANGED <<agentkitRouteConfig, frameworkRouteConfig, mcpConfig, envLines, diskVars>>

PromptNetworkType ==
  /\ pc = "promptNetworkType"
  /\ \E t \in {"mainnet", "testnet", "custom"} :
       /\ answers' = [answers EXCEPT !.networkType = t]
       /\ pc' = IF t = "custom" THEN "promptChainId" ELSE "promptNetwork"
  /\ UNCHANGED <<framework, walletProvider, network, chainId, rpcUrl, modelProvider,
                 networkFamily, error, choices>>
  /\ UNCHANGED <<copyVars, adapterVars>>
  /\ UNCHANGED <<agentkitRouteConfig, frameworkRouteConfig, mcpConfig, envLines, diskVars>>

PromptNetwork ==
  /\ pc = "promptNetwork"
  /\ LET shown == IF answers.networkFamily = "SVM"
                  THEN Range(SVM_NETWORKS)
                  ELSE {n \in Range(EVM_NETWORKS) :
                          IF answers.networkType = "mainnet"
                          THEN IncludesMainnet(n) ELSE ~IncludesMainnet(n)}
     IN \E n \in shown : network' = n
  /\ pc' = "promptWalletProvider"
  /\ UNCHANGED <<framework, walletProvider, chainId, rpcUrl, modelProvider, networkFamily,
                 error, answers, choices>>
  /\ UNCHANGED <<copyVars, adapterVars>>
  /\ UNCHANGED <<agentkitRouteConfig, frameworkRouteConfig, mcpConfig, envLines, diskVars>>

PromptChainId ==
  /\ pc = "promptChainId"
  /\ \E value \in ChainIdTexts :
       /\ ValidChainId(value)
       /\ chainId' = value
  /\ pc' = "promptRpcUrl"
  /\ UNCHANGED <<framework, walletProvider, network, rpcUrl, modelProvider, networkFamily,
                 error, answers, choices>>
  /\ UNCHANGED <<copyVars, adapterVars>>
  /\ UNCHANGED <<agentkitRouteConfig, frameworkRouteConfig, mcpConfig, envLines, diskVars>>

PromptRpcUrl ==
  /\ pc = "promptRpcUrl"
  /\ \E value \in RpcUrlTexts :
       /\ ValidRpcUrl(value)
       /\ rpcUrl' = value
  \* the wallet-provider prompt is skipped for a custom chain id
  /\ pc' = "promptModelProvider"
  /\ UNCHANGED <<framework, walletProvider, network, chainId, modelProvider, networkFamily,
                 error, answers, choices>>
  /\ UNCHANGED <<copyVars, adapterVars>>
  /\ UNCHANGED <<agentkitRouteConfig, frameworkRouteConfig, mcpConfig, envLines, diskVars>>

PromptWalletProvider ==
  /\ pc = "promptWalletProvider"
  /\ choices' = getWalletProviders(network)
  /\ \E i \in DOMAIN getWalletProviders(network) :
       walletProvider' = getWalletProviders(network)[i]
  /\ pc' = "promptModelProvider"
  /\ UNCHANGED <<framework, network, chainId, rpcUrl, modelProvider, networkFamily, error,
                 answers>>
  /\ UNCHANGED <<copyVars, adapterVars>>
  /\ UNCHANGED <<agentkitRouteConfig, frameworkRouteConfig, mcpConfig, envLines, diskVars>>

PromptModelProvider ==
  /\ pc = "promptModelProvider"
  /\ \E m \in Range(ModelProviders) : modelProvider' = m
  /\ pc' = "answered"
  /\ UNCHANGED <<framework, walletProvider, network, chainId, rpcUrl, networkFamily, error,
                 answers, choices>>
  /\ UNCHANGED <<copyVars, adapterVars>>
  /\ UNCHANGED <<agentkitRouteConfig, frameworkRouteConfig, mcpConfig, envLines, diskVars>>

\* the defaults applied to the answers once the prompts are over
ApplyDefaults ==
  /\ pc = "answered"
  /\ walletProvider' = IF Truthy(walletProvider) THEN walletProvider ELSE "Viem"
  /\ modelProvider' = IF Truthy(modelProvider) THEN modelProvider ELSE "OpenAI"
  /\ answers' = [answers EXCEPT !.template =
                    IF Truthy(answers.template) THEN answers.template
                    ELSE FrameworkToTemplates[framework][1]]
  /\ pc' = "selected"
  /\ UNCHANGED <<framework, network, chainId, rpcUrl, networkFamily, error, choices>>
  /\ UNCHANGED <<copyVars, adapterVars>>
  /\ UNCHANGED <<agentkitRouteConfig, frameworkRouteConfig, mcpConfig, envLines, diskVars>>

NextPrompt ==
  \/ PromptFramework
  \/ PromptNetworkFamily
  \/ PromptNetworkType
  \/ PromptNetwork
  \/ PromptChainId
  \/ PromptRpcUrl
  \/ PromptWalletProvider
  \/ PromptModelProvider
  \/ ApplyDefaults

SpecPrompt == InitPrompt /\ [][NextPrompt]_vars

----------------------------------------------------------------------------
(* File-system calls *)

\* fs.rename: the file moves, replacing what the destination held
Renamed(files, from, to) == [files EXCEPT ![to] = files[from], ![from] = NoFile]

\* a removal that leaves the files of the directory in place
Removed_KeepsFiles(files, under) == files

\* fs.rm(dir, { recursive: true, force: true }) on the files
Removed(files, under) == [p \in DOMAIN files |-> IF p \in under THEN NoFile ELSE files[p]]

\* the message of a rejected file-system call
IoError == "EIO: i/o error"

Throw(message) ==
  /\ error' = message
  /\ pc' = "thrown"

----------------------------------------------------------------------------
(* handleNextSelection *)

agentkitDir == PathJoin(agentDir, "agentkit")
frameworkDir == PathJoin(agentDir, "framework")

AgentkitPaths == {PathJoin(agentkitDir, r) : r \in AgentkitRoutes}

FrameworkPaths ==
  UNION {{PathJoin(frameworkDir, NextTemplateRouteConfigurations[f].apiRoute),
          PathJoin(frameworkDir, NextTemplateRouteConfigurations[f].createAgentRoute)} :
         f \in DOMAIN NextTemplateRouteConfigurations}

PromotedNextPaths ==
  {PathJoin(agentDir, "prepare-agentkit.ts"), PathJoin(agentDir, "create-agent.ts"),
   PathJoin(agentDir, "route.ts")}

NextPaths == AgentkitPaths \cup FrameworkPaths \cup PromotedNextPaths \cup {envPath}

\* the "next" template as copied, before handleNextSelection runs
CopiedNextTemplate ==
  [p \in NextPaths |->
     CASE p \in AgentkitPaths -> File(<<"// " \o p>>)
       [] p = PathJoin(frameworkDir, "langchain/create-agent.ts") -> File(LangchainCreateAgentText)
       [] p = PathJoin(frameworkDir, "vercel-ai-sdk/create-agent.ts") -> File(VercelCreateAgentText)
       [] p \in FrameworkPaths -> File(<<"// " \o p>>)
       [] OTHER -> NoFile]

\* what .env.local may hold when the handler starts
OldEnvFiles == {NoFile, File(<<"NETWORK_ID=stale-network", "STALE_KEY=1">>)}

InitNext ==
  /\ pc = "handleNextSelection"
  /\ framework \in Range(Frameworks)
  /\ walletProvider \in WalletProviderChoices
  /\ network \in NetworkArgs
  /\ chainId \in ChainIdArgs
  /\ rpcUrl \in RpcUrlArgs
  /\ modelProvider \in ModelProviderArgs
  /\ networkFamily = Undefined
  /\ NoLocals
  /\ error = NoError
  /\ answers = NoAnswers
  /\ choices = <<>>
  /\ \E old \in OldEnvFiles : fs = [CopiedNextTemplate EXCEPT ![envPath] = old]
  /\ dirs = {agentkitDir, frameworkDir}
  /\ configTemplate = NoConfig
  /\ configWritten = NoConfig
  /\ packageJson = PackageJsonTemplate
  /\ NoCopy
  /\ NoAdapter

\* AgentkitRouteConfigurations[networkFamily][walletProvider], with a fallback to the
\* family's first entry
ResolveAgentkitRoute_DefaultsSilently(fam, wp) ==
  IF wp \in DOMAIN AgentkitRouteConfigurations[fam]
  THEN AgentkitRouteConfigurations[fam][wp]
  ELSE AgentkitRouteConfigurations[fam][CHOOSE k \in DOMAIN AgentkitRouteConfigurations[fam] : TRUE]

\* the provider looked up without regard to the family
ResolveAgentkitRoute_AnyFamily(fam, wp) ==
  IF wp \in DOMAIN AgentkitRouteConfigurations.EVM
  THEN AgentkitRouteConfigurations.EVM[wp]
  ELSE Lookup(AgentkitRouteConfigurations[fam], wp)

ResolveAgentkitRoute(fam, wp) == Lookup(AgentkitRouteConfigurations[fam], wp)

ResolveFrameworkRoute(fw) == Lookup(NextTemplateRouteConfigurations, fw)

\* a selection step that writes the model provider's block to .env.local before the lookups
NextSelect_WritesEnvFirst ==
  /\ pc = "handleNextSelection"
  /\ networkFamily' = getNetworkType(network, chainId)
  /\ fs' = [fs EXCEPT ![envPath] = File(getModelProviderEnvConfig(modelProvider))]
  /\ IF ~Truthy(networkFamily')
     THEN /\ Throw("Unsupported network and chainId selected")
          /\ UNCHANGED <<agentkitRouteConfig, frameworkRouteConfig, envLines>>
     ELSE /\ agentkitRouteConfig' = ResolveAgentkitRoute(networkFamily', walletProvider)
          /\ frameworkRouteConfig' = ResolveFrameworkRoute(framework)
          /\ IF agentkitRouteConfig' = UndefinedConfig
             THEN /\ Throw("Selected invalid network & wallet provider combination")
                  /\ UNCHANGED envLines
             ELSE IF frameworkRouteConfig' = UndefinedConfig
             THEN /\ Throw("Selected invalid framework for this template")
                  /\ UNCHANGED envLines
             ELSE /\ envLines' = BuildEnvLines(agentkitRouteConfig', network, chainId,
                                              rpcUrl, modelProvider)
                  /\ pc' = "writeEnv"
                  /\ UNCHANGED error
  /\ UNCHANGED <<copyVars, adapterVars>>
  /\ UNCHANGED <<argVars, promptVars, mcpConfig, dirs, configTemplate, configWritten,
                 packageJson>>

\* lines 723-760: everything before the first await
NextSelect ==
  /\ pc = "handleNextSelection"
  /\ networkFamily' = getNetworkType(network, chainId)
  /\ IF ~Truthy(networkFamily')
     THEN /\ Throw("Unsupported network and chainId selected")
          /\ UNCHANGED <<agentkitRouteConfig, frameworkRouteConfig, envLines>>
     ELSE /\ agentkitRouteConfig' = ResolveAgentkitRoute(networkFamily', walletProvider)
          /\ frameworkRouteConfig' = ResolveFrameworkRoute(framework)
          /\ IF agentkitRouteConfig' = UndefinedConfig
             THEN /\ Throw("Selected invalid network & wallet provider combination")
                  /\ UNCHANGED envLines
             ELSE IF frameworkRouteConfig' = UndefinedConfig
             THEN /\ Throw("Selected invalid framework for this template")
                  /\ UNCHANGED envLines
             ELSE /\ envLines' = BuildEnvLines(agentkitRouteConfig', network, chainId,
                                              rpcUrl, modelProvider)
                  /\ pc' = "writeEnv"
                  /\ UNCHANGED error
  /\ UNCHANGED <<copyVars, adapterVars>>
  /\ UNCHANGED <<argVars, promptVars, mcpConfig, diskVars>>

\* the environment file written and the cleanup started at once, the promotions left out
WriteEnv_SkipsToCleanup ==
  /\ pc = "writeEnv"
  /\ fs' = [fs EXCEPT ![envPath] = File(JoinLines(envLines))]
  /\ pc' = "rmAgentkit"
  /\ UNCHANGED <<copyVars, adapterVars>>
  /\ UNCHANGED <<error, argVars, promptVars, localVars, dirs, configTemplate, configWritten,
                 packageJson>>

\* line 762: fs.writeFile(envPath, envLines)
WriteEnv ==
  /\ pc = "writeEnv"
  /\ fs' = [fs EXCEPT ![envPath] = File(JoinLines(envLines))]
  /\ pc' = "promotePrepareAgentkit"
  /\ UNCHANGED <<copyVars, adapterVars>>
  /\ UNCHANGED <<error, argVars, promptVars, localVars, dirs, configTemplate, configWritten,
                 packageJson>>

\* a promotion that passes over a missing source
PromoteRoute_IgnoresMissing(toPromote, type, to, then) ==
  LET selectedRoutePath == PathJoin(PathJoin(agentDir, type), toPromote)
      newRoutePath == PathJoin(agentDir, to)
  IN /\ fs' = IF fs[selectedRoutePath].exists
              THEN Renamed(fs, selectedRoutePath, newRoutePath)
              ELSE fs
     /\ pc' = then
     /\ UNCHANGED <<copyVars, adapterVars>>
     /\ UNCHANGED <<error, argVars, promptVars, localVars, dirs, configTemplate, configWritten,
                    packageJson>>

\* promoteRoute(toPromote, type, to): fs.rename, which fails when the source is missing
PromoteRoute(toPromote, type, to, then) ==
  LET selectedRoutePath == PathJoin(PathJoin(agentDir, type), toPromote)
      newRoutePath == PathJoin(agentDir, to)
  IN /\ IF fs[selectedRoutePath].exists
        THEN /\ fs' = Renamed(fs, selectedRoutePath, newRoutePath)
             /\ pc' = then
             /\ UNCHANGED error
        ELSE /\ Throw("ENOENT: no such file or directory, rename")
             /\ UNCHANGED fs
     /\ UNCHANGED <<copyVars, adapterVars>>
     /\ UNCHANGED <<argVars, promptVars, localVars, dirs, configTemplate, configWritten,
                    packageJson>>

PromotePrepareAgentkit ==
  /\ pc = "promotePrepareAgentkit"
  /\ PromoteRoute(agentkitRouteConfig.prepareAgentkitRoute, "agentkit", "prepare-agentkit.ts",
                  "promoteCreateAgent")

PromoteCreateAgent ==
  /\ pc = "promoteCreateAgent"
  /\ PromoteRoute(frameworkRouteConfig.createAgentRoute, "framework", "create-agent.ts",
                  "promoteApiRoute")

PromoteApiRoute ==
  /\ pc = "promoteApiRoute"
  /\ PromoteRoute(frameworkRouteConfig.apiRoute, "framework", "route.ts", "updateCreateAgent")

\* line 776: updateCreateAgentWithModelProvider(<agentDir>/create-agent.ts, modelProvider)
UpdateCreateAgentWithModelProvider ==
  /\ pc = "updateCreateAgent"
  /\ LET filePath == PathJoin(agentDir, "create-agent.ts")
     IN IF fs[filePath].exists
        THEN /\ fs' = [fs EXCEPT ![filePath] =
                         File(UpdatedCreateAgent(fs[filePath].text, modelProvider))]
             /\ pc' = "updatePackageJson"
             /\ UNCHANGED error
        ELSE /\ Throw("ENOENT: no such file or directory, open")
             /\ UNCHANGED fs
  /\ UNCHANGED <<copyVars, adapterVars>>
  /\ UNCHANGED <<argVars, promptVars, localVars, dirs, configTemplate, configWritten,
                 packageJson>>

\* line 779: updatePackageJsonWithModelProvider(<root>/package.json, modelProvider)
UpdatePackageJsonWithModelProvider ==
  /\ pc = "updatePackageJson"
  /\ IF packageJson # NoConfig
     THEN /\ packageJson' = UpdatedPackageJson(packageJson, modelProvider)
          /\ pc' = "rmAgentkit"
          /\ UNCHANGED error
     ELSE /\ Throw("ENOENT: no such file or directory, open")
          /\ UNCHANGED packageJson
  /\ UNCHANGED <<copyVars, adapterVars>>
  /\ UNCHANGED <<argVars, promptVars, localVars, fs, dirs, configTemplate, configWritten>>

\* line 782
RmAgentkit ==
  /\ pc = "rmAgentkit"
  /\ fs' = Removed(fs, AgentkitPaths)
  /\ dirs' = dirs \ {agentkitDir}
  /\ pc' = "rmFramework"
  /\ UNCHANGED <<copyVars, adapterVars>>
  /\ UNCHANGED <<error, argVars, promptVars, localVars, configTemplate, configWritten,
                 packageJson>>

\* line 783
RmFramework ==
  /\ pc = "rmFramework"
  /\ fs' = Removed(fs, FrameworkPaths)
  /\ dirs' = dirs \ {frameworkDir}
  /\ pc' = "done"
  /\ UNCHANGED <<copyVars, adapterVars>>
  /\ UNCHANGED <<error, argVars, promptVars, localVars, configTemplate, configWritten,
                 packageJson>>

NextNext ==
  \/ NextSelect
  \/ WriteEnv
  \/ PromotePrepareAgentkit
  \/ PromoteCreateAgent
  \/ PromoteApiRoute
  \/ UpdateCreateAgentWithModelProvider
  \/ UpdatePackageJsonWithModelProvider
  \/ RmAgentkit
  \/ RmFramework

SpecNext == InitNext /\ [][NextNext]_vars

----------------------------------------------------------------------------
(* handleMcpSelection *)

mcpAgentkitDir == PathJoin(srcDir, "agentkit")

McpAgentkitRoutes ==
  UNION {{MCPRouteConfigurations[fam][wp].getAgentkitRoute :
            wp \in DOMAIN MCPRouteConfigurations[fam]} :
         fam \in DOMAIN MCPRouteConfigurations}

McpAgentkitPaths == {PathJoin(mcpAgentkitDir, r) : r \in McpAgentkitRoutes}

McpPaths == McpAgentkitPaths \cup {PathJoin(srcDir, "getAgentKit.ts")}

\* the "mcp" template as copied, before handleMcpSelection runs
CopiedMcpTemplate ==
  [p \in McpPaths |-> IF p \in McpAgentkitPaths THEN File(<<"// " \o p>>) ELSE NoFile]

\* the most occurrences of the placeholder in the first launch argument of a template
MaxPlaceholders == 2

\* a launch argument, as the pieces of its string, with k occurrences of the placeholder
LaunchArgument(k) ==
  IF k = 0 THEN <<"/opt/agentkit/build/index.js">>
  ELSE [i \in 1..(k + k) |-> IF i % 2 = 1 THEN Placeholder ELSE "/build/index.js:"]

\* an env entry of a template: absent, or present with one of the values
EnvEntries(key, values) == {EmptyObject} \cup {key :> v : v \in values}

\* the env mappings of the templates
EnvTemplates ==
  {("PRIVATE_KEY" :> "") @@ n @@ c @@ k :
     n \in EnvEntries("NETWORK_ID", {"", "base-sepolia"}),
     c \in EnvEntries("CHAIN_ID", {"", "84532"}),
     k \in EnvEntries("OPENAI_API_KEY", {"sk-template"})}

\* the documents a claude_desktop_config.json template may hold
ConfigTemplates ==
  {[mcpServers |->
      [agentkit |-> [command |-> "node",
                     args |-> <<LaunchArgument(k), <<"--root=", Placeholder>>>>,
                     env |-> env],
       filesystem |-> [command |-> "npx", args |-> <<<<Placeholder>>>>,
                       env |-> EmptyObject]],
    globalShortcut |-> "Ctrl+Space"] :
     k \in 0..MaxPlaceholders, env \in EnvTemplates}

InitMcp ==
  /\ pc = "handleMcpSelection"
  /\ framework = "Model Context Protocol"
  /\ walletProvider \in WalletProviderChoices
  /\ network \in NetworkArgs
  /\ chainId \in ChainIdArgs
  /\ rpcUrl = Undefined
  /\ modelProvider \in ModelProviderArgs
  /\ networkFamily = Undefined
  /\ NoLocals
  /\ error = NoError
  /\ answers = NoAnswers
  /\ choices = <<>>
  /\ fs = CopiedMcpTemplate
  /\ dirs = {mcpAgentkitDir}
  /\ configTemplate \in ConfigTemplates
  /\ configWritten = NoConfig
  /\ packageJson = PackageJsonTemplate
  /\ NoCopy
  /\ NoAdapter

\* MCPRouteConfigurations[networkFamily][walletProvider], with a fallback to the family's
\* first entry
ResolveMcpRoute_DefaultsSilently(fam, wp) ==
  IF wp \in DOMAIN MCPRouteConfigurations[fam]
  THEN MCPRouteConfigurations[fam][wp]
  ELSE MCPRouteConfigurations[fam][CHOOSE k \in DOMAIN MCPRouteConfigurations[fam] : TRUE]

ResolveMcpRoute(fam, wp) == Lookup(MCPRouteConfigurations[fam], wp)

\* lines 812-822: everything before the first await
McpSelect ==
  /\ pc = "handleMcpSelection"
  /\ networkFamily' = getNetworkType(network, chainId)
  /\ IF ~Truthy(networkFamily')
     THEN /\ Throw("Unsupported network and chainId selected")
          /\ UNCHANGED mcpConfig
     ELSE /\ mcpConfig' = ResolveMcpRoute(networkFamily', walletProvider)
          /\ IF mcpConfig' = UndefinedConfig
             THEN Throw("Selected invalid network & wallet provider combination")
             ELSE /\ pc' = "copyAndReplaceConfig"
                  /\ UNCHANGED error
  /\ UNCHANGED <<copyVars, adapterVars>>
  /\ UNCHANGED <<argVars, promptVars, agentkitRouteConfig, frameworkRouteConfig, envLines,
                 diskVars>>

\* a first launch argument without the placeholder reported as an error
CopyAndReplaceConfig_ThrowsOnMiss ==
  /\ pc = "copyAndReplaceConfig"
  /\ IF configTemplate # NoConfig
        /\ Includes(configTemplate.mcpServers.agentkit.args[1], Placeholder)
     THEN /\ configWritten' =
               Stringify(PatchConfig(configTemplate, modelProvider, network, chainId))
          /\ pc' = "promoteGetAgentKit"
          /\ UNCHANGED error
     ELSE /\ Throw("placeholder not found")
          /\ UNCHANGED configWritten
  /\ UNCHANGED <<copyVars, adapterVars>>
  /\ UNCHANGED <<argVars, promptVars, localVars, fs, dirs, configTemplate, packageJson>>

\* lines 829-868: the template is read and parsed, patched, serialized and written
CopyAndReplaceConfig ==
  /\ pc = "copyAndReplaceConfig"
  /\ IF configTemplate # NoConfig
     THEN /\ configWritten' =
               Stringify(PatchConfig(configTemplate, modelProvider, network, chainId))
          /\ pc' = "promoteGetAgentKit"
          /\ UNCHANGED error
     ELSE /\ Throw("ENOENT: no such file or directory, open")
          /\ UNCHANGED configWritten
  /\ UNCHANGED <<copyVars, adapterVars>>
  /\ UNCHANGED <<argVars, promptVars, localVars, fs, dirs, configTemplate, packageJson>>

\* line 879: promoteRoute(mcpConfig.getAgentkitRoute, "getAgentKit.ts")
PromoteGetAgentKit ==
  /\ pc = "promoteGetAgentKit"
  /\ LET selectedRoutePath == PathJoin(PathJoin(srcDir, "agentkit"), mcpConfig.getAgentkitRoute)
         newRoutePath == PathJoin(srcDir, "getAgentKit.ts")
     IN IF fs[selectedRoutePath].exists
        THEN /\ fs' = Renamed(fs, selectedRoutePath, newRoutePath)
             /\ pc' = "rmMcpAgentkit"
             /\ UNCHANGED error
        ELSE /\ Throw("ENOENT: no such file or directory, rename")
             /\ UNCHANGED fs
  /\ UNCHANGED <<copyVars, adapterVars>>
  /\ UNCHANGED <<argVars, promptVars, localVars, dirs, configTemplate, configWritten,
                 packageJson>>

\* line 881: the templates under src/agentkit go with the directory
RmMcpAgentkit ==
  /\ pc = "rmMcpAgentkit"
  /\ fs' = Removed(fs, McpAgentkitPaths)
  /\ dirs' = dirs \ {mcpAgentkitDir}
  /\ configTemplate' = NoConfig
  /\ pc' = "done"
  /\ UNCHANGED <<copyVars, adapterVars>>
  /\ UNCHANGED <<error, argVars, promptVars, localVars, configWritten, packageJson>>

NextMcp ==
  \/ McpSelect
  \/ CopyAndReplaceConfig
  \/ PromoteGetAgentKit
  \/ RmMcpAgentkit

SpecMcp == InitMcp /\ [][NextMcp]_vars

----------------------------------------------------------------------------
(* Specification SpecHandlers: the handler initProject dispatches to, on    *)
(* every argument list of its types                                         *)

InitHandlers == InitNext \/ InitMcp

NextHandlers == NextNext \/ NextMcp

SpecHandlers == InitHandlers /\ [][NextHandlers]_vars

----------------------------------------------------------------------------
(* Specification SpecUpdate: handleNextSelection from line 776 on, for      *)
(* every create-agent.ts and package.json of the inputs: the two updates    *)
(* and the cleanup, after the three promotions                              *)

\* the most copies of one statement in a create-agent.ts source
MaxCopies == 2

Repeat(stmt, n) == [i \in 1..n |-> stmt]

\* the sources of create-agent.ts: each statement the rewriter looks for, none to
\* MaxCopies times, and a statement it does not look for
SourceTexts ==
  {Repeat(langchainConfig.OpenAI.import, a)
     \o Repeat(LanggraphImport, b)
     \o Repeat(vercelConfig.OpenAI.import, c)
     \o Repeat(GuardText("process.env.OPENAI_API_KEY", "OPENAI_API_KEY"), d)
     \o Repeat(langchainConfig.OpenAI.constructor, e)
     \o Repeat(vercelConfig.OpenAI.constructor, f)
     \o <<"export async function createAgent() {}">> :
     a \in 0..MaxCopies, b \in 0..MaxCopies, c \in 0..MaxCopies,
     d \in 0..MaxCopies, e \in 0..MaxCopies, f \in 0..MaxCopies}

\* the documents package.json may hold: with and without a dependencies mapping
PackageJsons ==
  {PackageJsonTemplate,
   [name |-> "onchain-agent", version |-> "0.1.0", scripts |-> ("dev" :> "next dev")]}

\* the files after lines 762-773, for the Langchain variant holding source
PromotedNextTemplate(source, lines) ==
  LET copied == [CopiedNextTemplate EXCEPT
                   ![PathJoin(frameworkDir,
                              NextTemplateRouteConfigurations["Langchain"].createAgentRoute)]
                     = File(source),
                   ![envPath] = File(JoinLines(lines))]
      p1 == Renamed(copied,
                    PathJoin(agentkitDir,
                             AgentkitRouteConfigurations.EVM.CDPEvmWallet.prepareAgentkitRoute),
                    PathJoin(agentDir, "prepare-agentkit.ts"))
      p2 == Renamed(p1,
                    PathJoin(frameworkDir,
                             NextTemplateRouteConfigurations["Langchain"].createAgentRoute),
                    PathJoin(agentDir, "create-agent.ts"))
  IN Renamed(p2,
             PathJoin(frameworkDir, NextTemplateRouteConfigurations["Langchain"].apiRoute),
             PathJoin(agentDir, "route.ts"))

InitUpdate ==
  /\ pc = "updateCreateAgent"
  /\ framework = "Langchain"
  /\ walletProvider = "CDPEvmWallet"
  /\ network = "ethereum-mainnet"
  /\ chainId = Undefined
  /\ rpcUrl = Undefined
  /\ modelProvider \in ModelProviderArgs
  /\ networkFamily = "EVM"
  /\ agentkitRouteConfig = AgentkitRouteConfigurations.EVM.CDPEvmWallet
  /\ frameworkRouteConfig = NextTemplateRouteConfigurations["Langchain"]
  /\ mcpConfig = UndefinedConfig
  /\ envLines = BuildEnvLines(agentkitRouteConfig, network, chainId, rpcUrl, modelProvider)
  /\ error = NoError
  /\ answers = NoAnswers
  /\ choices = <<>>
  /\ \E source \in SourceTexts : fs = PromotedNextTemplate(source, envLines)
  /\ dirs = {agentkitDir, frameworkDir}
  /\ configTemplate = NoConfig
  /\ configWritten = NoConfig
  /\ packageJson \in PackageJsons
  /\ NoCopy
  /\ NoAdapter

NextUpdate ==
  \/ UpdateCreateAgentWithModelProvider
  \/ UpdatePackageJsonWithModelProvider
  \/ RmAgentkit
  \/ RmFramework

SpecUpdate == InitUpdate /\ [][NextUpdate]_vars

----------------------------------------------------------------------------
Families == {"EVM", "CUSTOM_EVM", "SVM"}

\* the networks getNetworkType puts in a family
NetworksOf(fam) == {n \in Range(Networks) : getNetworkType(n, Undefined) = fam}

\* the providers the wallet-provider prompt can show for some network of a family
OfferedProviders(fam) == UNION {Range(getWalletProviders(n)) : n \in NetworksOf(fam)}

\* the positions of handleNextSelection after its selection succeeded
NextPositions ==
  {"writeEnv", "promotePrepareAgentkit", "promoteCreateAgent", "promoteApiRoute",
   "updateCreateAgent", "updatePackageJson", "rmAgentkit", "rmFramework"}

\* the positions of handleMcpSelection after its selection succeeded
McpPositions == {"copyAndReplaceConfig", "promoteGetAgentKit", "rmMcpAgentkit"}

----------------------------------------------------------------------------
----------------------------------------------------------------------------
(* C2: a selection error is raised for every invalid selection and no       *)
(* default is substituted.  A step of handleNextSelection from a selection  *)
(* whose (family, walletProvider) pair has no entry in                      *)
(* AgentkitRouteConfigurations, or whose framework has no entry in          *)
(* NextTemplateRouteConfigurations, throws the matching error; a step of    *)
(* handleMcpSelection from a pair without an entry in                       *)
(* MCPRouteConfigurations throws; the throwing step changes nothing on disk *)
(* and nothing runs after it.                                               *)
C2_InvalidSelectionThrows ==
  [][/\ pc # "thrown"
     /\ (pc = "handleNextSelection" /\ getNetworkType(network, chainId) \in Families) =>
          LET fam == getNetworkType(network, chainId)
          IN /\ walletProvider \notin DOMAIN AgentkitRouteConfigurations[fam] =>
                  /\ pc' = "thrown"
                  /\ error' = "Selected invalid network & wallet provider combination"
                  /\ UNCHANGED diskVars
             /\ (/\ walletProvider \in DOMAIN AgentkitRouteConfigurations[fam]
                 /\ framework \notin DOMAIN NextTemplateRouteConfigurations) =>
                  /\ pc' = "thrown"
                  /\ error' = "Selected invalid framework for this template"
                  /\ UNCHANGED diskVars
     /\ (pc = "handleMcpSelection" /\ getNetworkType(network, chainId) \in Families) =>
          LET fam == getNetworkType(network, chainId)
          IN walletProvider \notin DOMAIN MCPRouteConfigurations[fam] =>
               /\ pc' = "thrown"
               /\ error' = "Selected invalid network & wallet provider combination"
               /\ UNCHANGED diskVars
    ]_vars

\* handleNextSelection stopped at a chain id selected together with Privy, the copied
\* template untouched
C2_Witness ==
  /\ pc = "thrown"
  /\ error = "Selected invalid network & wallet provider combination"
  /\ networkFamily = "CUSTOM_EVM"
  /\ walletProvider = "Privy"
  /\ framework = "Langchain"
  /\ agentkitRouteConfig = UndefinedConfig
  /\ dirs = {agentkitDir, frameworkDir}

----------------------------------------------------------------------------
(* C3: for every (family, provider) key present in a route table the route  *)
(* the assembly uses is the entry stored under the classified family and    *)
(* the provider, and the file it promotes is that family's variant: a       *)
(* provider keyed under several families never resolves to another          *)
(* family's entry, and the entries of two families differ in every route.   *)
C3_RouteOfClassifiedFamily ==
  LET fam == getNetworkType(network, chainId)
  IN /\ \A f1 \in Families : \A f2 \in Families \ {f1} :
          /\ \A wp \in DOMAIN AgentkitRouteConfigurations[f1]
                         \cap DOMAIN AgentkitRouteConfigurations[f2] :
               AgentkitRouteConfigurations[f1][wp].prepareAgentkitRoute
                 # AgentkitRouteConfigurations[f2][wp].prepareAgentkitRoute
          /\ \A wp \in DOMAIN MCPRouteConfigurations[f1] \cap DOMAIN MCPRouteConfigurations[f2] :
               /\ MCPRouteConfigurations[f1][wp].getAgentkitRoute
                    # MCPRouteConfigurations[f2][wp].getAgentkitRoute
               /\ MCPRouteConfigurations[f1][wp].configRoute
                    # MCPRouteConfigurations[f2][wp].configRoute
     /\ (pc \in NextPositions \/ (pc = "done" /\ agentkitRouteConfig # UndefinedConfig)) =>
          /\ fam \in Families
          /\ walletProvider \in DOMAIN AgentkitRouteConfigurations[fam]
          /\ agentkitRouteConfig = AgentkitRouteConfigurations[fam][walletProvider]
          /\ pc \in {"promoteCreateAgent", "promoteApiRoute", "updateCreateAgent",
                     "updatePackageJson", "rmAgentkit", "rmFramework", "done"} =>
               fs[PathJoin(agentDir, "prepare-agentkit.ts")] =
                 File(VariantText(agentkitDir,
                        AgentkitRouteConfigurations[fam][walletProvider].prepareAgentkitRoute))
     /\ (pc \in McpPositions \/ (pc = "done" /\ mcpConfig # UndefinedConfig)) =>
          /\ fam \in Families
          /\ walletProvider \in DOMAIN MCPRouteConfigurations[fam]
          /\ mcpConfig = MCPRouteConfigurations[fam][walletProvider]
          /\ pc \in {"rmMcpAgentkit", "done"} =>
               fs[PathJoin(srcDir, "getAgentKit.ts")] =
                 File(VariantText(mcpAgentkitDir,
                        MCPRouteConfigurations[fam][walletProvider].getAgentkitRoute))

\* Viem, keyed under EVM and CUSTOM_EVM, assembled for a chain id: the custom-evm variant
\* is the promoted file
C3_Witness ==
  /\ pc = "done"
  /\ networkFamily = "CUSTOM_EVM"
  /\ walletProvider = "Viem"
  /\ agentkitRouteConfig = AgentkitRouteConfigurations.CUSTOM_EVM.Viem
  /\ fs[PathJoin(agentDir, "prepare-agentkit.ts")] =
       File(VariantText(agentkitDir, "custom-evm/viem/prepare-agentkit.ts"))

----------------------------------------------------------------------------
(* C4: a route configuration exists for a (family, provider) pair if and    *)
(* only if the pair is offered to the user: the providers keyed in the      *)
(* agent-route table under EVM and SVM are exactly those getWalletProviders *)
(* offers for some network of the family, CUSTOM_EVM is keyed by exactly    *)
(* the auto-selected Viem, the MCP and preparation tables have the same     *)
(* keys, and every selection the prompts produce has its route.             *)
C4_RouteExistsIffOffered ==
  /\ \A fam \in {"EVM", "SVM"} :
       DOMAIN AgentkitRouteConfigurations[fam] = OfferedProviders(fam)
  /\ DOMAIN AgentkitRouteConfigurations["CUSTOM_EVM"] = {"Viem"}
  /\ \A fam \in Families :
       /\ DOMAIN MCPRouteConfigurations[fam] = DOMAIN AgentkitRouteConfigurations[fam]
       /\ DOMAIN PrepareAgentkitRouteConfigurations[fam]
            = DOMAIN AgentkitRouteConfigurations[fam]
  /\ pc = "promptModelProvider" /\ ~IsCustom =>
       /\ Range(choices) \subseteq
            DOMAIN AgentkitRouteConfigurations[getNetworkType(network, chainId)]
       /\ walletProvider \in Range(choices)
  /\ pc = "selected" =>
       /\ getNetworkType(network, chainId) \in Families
       /\ IsCustom <=> getNetworkType(network, chainId) = "CUSTOM_EVM"
       /\ walletProvider \in
            DOMAIN AgentkitRouteConfigurations[getNetworkType(network, chainId)]

\* a custom chain id selected: the wallet prompt was skipped and Viem filled in
C4_Witness ==
  /\ pc = "selected"
  /\ IsCustom
  /\ chainId = "31337"
  /\ walletProvider = "Viem"
  /\ choices = <<>>

----------------------------------------------------------------------------
(* C5 as claimed: for any two Networks that getNetworkType puts in the same *)
(* family, getWalletProviders returns the same list in the same order.      *)
C5_ProvidersDeterminedByFamily ==
  pc = "promptModelProvider" /\ ~IsCustom =>
    \A n2 \in NetworksOf(getNetworkType(network, Undefined)) :
      getWalletProviders(n2) = choices

\* the EVM networks mapped to CDP_SUPPORTED_EVM_WALLET_PROVIDERS
CdpSupportedNetworks ==
  {"arbitrum-mainnet", "base-mainnet", "base-sepolia", "ethereum-mainnet", "polygon-mainnet"}

(* C5 amended: the list of wallet providers of a Network is determined by   *)
(* its family together with CDP support: two Networks of the same family    *)
(* that are both CDP-supported or both not get the same list in the same    *)
(* order, and the list is never empty.                                      *)
C5_ProvidersDeterminedByFamilyAndCdpSupport ==
  pc = "promptModelProvider" /\ ~IsCustom =>
    /\ choices # <<>>
    /\ \A n2 \in NetworksOf(getNetworkType(network, Undefined)) :
         ((n2 \in CdpSupportedNetworks) <=> (network \in CdpSupportedNetworks))
           => getWalletProviders(n2) = choices

\* the prompt shown for an EVM network without CDP support
C5_Witness ==
  /\ pc = "promptModelProvider"
  /\ network = "arbitrum-sepolia"
  /\ choices = <<"Viem", "Privy">>
  /\ walletProvider = "Privy"

----------------------------------------------------------------------------
\* .env.local holds what handleNextSelection wrote
EnvWritten ==
  pc \in (NextPositions \ {"writeEnv"}) \/ (pc = "done" /\ agentkitRouteConfig # UndefinedConfig)

ApiKeyNames ==
  [OpenAI |-> "OPENAI_API_KEY", Gemini |-> "GEMINI_API_KEY", Anthropic |-> "ANTHROPIC_API_KEY"]

ModelNames ==
  [OpenAI |-> "OPENAI_MODEL", Gemini |-> "GEMINI_MODEL", Anthropic |-> "ANTHROPIC_MODEL"]

\* the values a line of a model-provider block may carry
BlockValues == {""} \cup {DefaultModels[p] : p \in DOMAIN DefaultModels}

IsApiKeyLine(line) ==
  \E p \in DOMAIN ApiKeyNames, v \in BlockValues : line = ApiKeyNames[p] \o "=" \o v

IsModelLine(line) ==
  \E p \in DOMAIN ModelNames, v \in BlockValues : line = ModelNames[p] \o "=" \o v

(* C6: the rendered .env.local contains exactly one model-provider block:   *)
(* one API-key line, with an empty value, directly followed by the one      *)
(* model line, which carries the provider's default model; the block is     *)
(* that of the requested provider for OpenAI, Gemini and Anthropic and the  *)
(* OpenAI block when the provider is unset or unrecognized.                 *)
C6_OneModelProviderBlock ==
  EnvWritten =>
    LET text == fs[envPath].text
        provider == IF modelProvider \in Range(ModelProviders) THEN modelProvider ELSE "OpenAI"
        keysAt == {i \in DOMAIN text : IsApiKeyLine(text[i])}
        modelsAt == {i \in DOMAIN text : IsModelLine(text[i])}
    IN /\ fs[envPath].exists
       /\ Cardinality(keysAt) = 1
       /\ Cardinality(modelsAt) = 1
       /\ \A i \in keysAt :
            /\ text[i] = ApiKeyNames[provider] \o "="
            /\ i + 1 \in modelsAt
       /\ \A i \in modelsAt :
            text[i] = ModelNames[provider] \o "=" \o DefaultModels[provider]

\* an unrecognized provider string: the file starts with the OpenAI block
C6_Witness ==
  /\ pc = "done"
  /\ modelProvider = "Mistral"
  /\ fs[envPath].exists
  /\ fs[envPath].text[3] = "OPENAI_API_KEY="
  /\ fs[envPath].text[4] = "OPENAI_MODEL=gpt-4"

----------------------------------------------------------------------------
\* the text of .env.local in the order of the claim, headerGap being the lines between
\* a section and the header of the next one
EnvLayout(headerGap) ==
  LET config == AgentkitRouteConfigurations[getNetworkType(network, chainId)][walletProvider]
      topComments == config.env.topComments
      required == config.env.required
      optional == config.env.optional
  IN getModelProviderEnvConfig(modelProvider)
       \o <<"">>
       \o [i \in 1..Len(topComments) |-> "# " \o topComments[i]]
       \o headerGap \o <<"# Required">>
       \o [i \in 1..Len(required) |-> required[i] \o "="]
       \o headerGap \o <<"# Optional">>
       \o <<"NETWORK_ID=" \o (IF network = Undefined THEN "" ELSE network)>>
       \o (IF rpcUrl # Undefined THEN <<"RPC_URL=" \o rpcUrl>> ELSE <<>>)
       \o (IF chainId # Undefined THEN <<"CHAIN_ID=" \o chainId>> ELSE <<>>)
       \o [i \in 1..Len(optional) |-> optional[i] \o "="]

\* the text rendered for network base-sepolia, no rpcUrl, no chainId, required
\* [CDP_API_KEY_ID] and optional []
BaseSepoliaExample ==
  JoinLines(BuildEnvLines([env |-> [topComments |-> <<>>,
                                    required |-> <<"CDP_API_KEY_ID">>,
                                    optional |-> <<>>],
                           prepareAgentkitRoute |-> "evm/cdp/prepare-agentkit.ts"],
                          "base-sepolia", Undefined, Undefined, Undefined))

\* the Required section holds CDP_API_KEY_ID=, the Optional section NETWORK_ID=base-sepolia,
\* and no line assigns RPC_URL or CHAIN_ID
BaseSepoliaExampleHolds ==
  LET text == BaseSepoliaExample
  IN /\ \E r \in DOMAIN text, k \in DOMAIN text, o \in DOMAIN text, n \in DOMAIN text :
          /\ r < k /\ k < o /\ o < n
          /\ text[r] = "# Required"
          /\ text[k] = "CDP_API_KEY_ID="
          /\ text[o] = "# Optional"
          /\ text[n] = "NETWORK_ID=base-sepolia"
     /\ \A i \in DOMAIN text :
          text[i] \notin {k \o "=" \o v : k \in {"RPC_URL", "CHAIN_ID"},
                                         v \in {""} \cup ((RpcUrlArgs \cup ChainIdArgs)
                                                            \ {Undefined})}

(* C7 as claimed: the text written to .env.local is the model-provider      *)
(* block, a blank line, one "# comment" line per topComments entry, the     *)
(* "# Required" header and one "KEY=" line per required name, then the      *)
(* "# Optional" header, NETWORK_ID=<network or empty>, RPC_URL=<rpcUrl>     *)
(* exactly when rpcUrl is supplied, CHAIN_ID=<chainId> exactly when chainId *)
(* is supplied, and one "KEY=" line per optional name, with nothing else    *)
(* between them; it replaces what .env.local held.                          *)
C7_EnvLocalLayout ==
  /\ BaseSepoliaExampleHolds
  /\ EnvWritten => fs[envPath] = File(EnvLayout(<<>>))

(* C7 amended: the text written to .env.local is the layout of the claim    *)
(* with one blank line before the "# Required" header and one before the    *)
(* "# Optional" header; the base-sepolia example holds as stated; the text  *)
(* replaces whatever .env.local held before.                                *)
C7_EnvLocalLayoutWithBlankLines ==
  /\ BaseSepoliaExampleHolds
  /\ EnvWritten => fs[envPath] = File(EnvLayout(<<"">>))

\* written over a stale .env.local for a chain id with an RPC URL: both lines are there, in
\* this order, and the stale lines are gone
C7_Witness ==
  /\ pc = "promotePrepareAgentkit"
  /\ network = Undefined
  /\ chainId = "31337"
  /\ rpcUrl = "http://localhost:8545"
  /\ walletProvider = "Viem"
  /\ \E i \in DOMAIN fs[envPath].text :
       /\ fs[envPath].text[i] = "# Optional"
       /\ fs[envPath].text[i + 1] = "NETWORK_ID="
       /\ fs[envPath].text[i + 2] = "RPC_URL=http://localhost:8545"
       /\ fs[envPath].text[i + 3] = "CHAIN_ID=31337"
  /\ \A i \in DOMAIN fs[envPath].text : fs[envPath].text[i] # "STALE_KEY=1"

----------------------------------------------------------------------------
\* the template and the written document are both on disk
ConfigPatched == pc \in {"promoteGetAgentKit", "rmMcpAgentkit"}

templateEnv == configTemplate.mcpServers.agentkit.env

writtenEnv == configWritten.mcpServers.agentkit.env

\* to is from with its first occurrence of the placeholder replaced by the root path
FirstPlaceholderSubstituted(from, to) ==
  LET at == {i \in DOMAIN from : from[i] = Placeholder}
  IN /\ DOMAIN to = DOMAIN from
     /\ \A i \in DOMAIN from :
          to[i] = IF i \in at /\ \A j \in at : i <= j THEN root ELSE from[i]

(* C8 as claimed: patching with no model provider and no network writes a   *)
(* document that differs from the template only in the placeholder          *)
(* substitution inside the first launch argument; every other field, every  *)
(* env key and value included, is the same.                                 *)
C8_OnlyPlaceholderDiffers ==
  (ConfigPatched /\ modelProvider = Undefined /\ network = Undefined) =>
    /\ configWritten =
         [configTemplate EXCEPT
            !.mcpServers.agentkit.args[1] = configWritten.mcpServers.agentkit.args[1]]
    /\ FirstPlaceholderSubstituted(configTemplate.mcpServers.agentkit.args[1],
                                   configWritten.mcpServers.agentkit.args[1])

(* C8 amended: handleMcpSelection patches with no model provider and no     *)
(* network only when a chainId is given, and the written document then      *)
(* differs from the template only in the placeholder substitution inside    *)
(* the first launch argument and in env.CHAIN_ID, which is the chainId;     *)
(* every other field and every other env key and value is the same.         *)
C8_OnlyPlaceholderAndChainIdDiffer ==
  (ConfigPatched /\ modelProvider = Undefined /\ network = Undefined) =>
    /\ chainId # Undefined
    /\ configWritten =
         [configTemplate EXCEPT
            !.mcpServers.agentkit.args[1] = configWritten.mcpServers.agentkit.args[1],
            !.mcpServers.agentkit.env = ("CHAIN_ID" :> chainId) @@ @]
    /\ FirstPlaceholderSubstituted(configTemplate.mcpServers.agentkit.args[1],
                                   configWritten.mcpServers.agentkit.args[1])

\* a template with two placeholders in the first argument and no CHAIN_ID, patched for a
\* chain id alone
C8_Witness ==
  /\ ConfigPatched
  /\ modelProvider = Undefined
  /\ network = Undefined
  /\ chainId = "31337"
  /\ configTemplate.mcpServers.agentkit.args[1] = LaunchArgument(2)
  /\ configWritten.mcpServers.agentkit.args[1][1] = root
  /\ configWritten.mcpServers.agentkit.args[1][3] = Placeholder
  /\ "CHAIN_ID" \notin DOMAIN templateEnv
  /\ writtenEnv["CHAIN_ID"] = "31337"
  /\ configWritten.mcpServers.filesystem = configTemplate.mcpServers.filesystem

----------------------------------------------------------------------------
(* C9: patching a template whose env has no NETWORK_ID key, with a network  *)
(* argument (and neither a model provider nor a chainId), leaves the set of *)
(* keys of the env mapping unchanged for every Network: no NETWORK_ID is    *)
(* injected and no key of the template is missing from the written          *)
(* document.                                                                *)
C9_EnvKeySetUnchanged ==
  (/\ ConfigPatched
   /\ network \in Range(Networks)
   /\ modelProvider = Undefined
   /\ chainId = Undefined
   /\ "NETWORK_ID" \notin DOMAIN templateEnv) =>
    DOMAIN writtenEnv = DOMAIN templateEnv

----------------------------------------------------------------------------
(* C10: when a network is given, NETWORK_ID is rewritten if and only if the *)
(* template's env has a NETWORK_ID key: whenever the key exists, whatever   *)
(* value it holds, the empty one included, the written NETWORK_ID is the    *)
(* Network identifier, and whenever the key does not exist it is not        *)
(* created.                                                                 *)
C10_NetworkIdRewrittenIffKeyExists ==
  (ConfigPatched /\ network \in Range(Networks)) =>
    IF "NETWORK_ID" \in DOMAIN templateEnv
    THEN "NETWORK_ID" \in DOMAIN writtenEnv /\ writtenEnv["NETWORK_ID"] = network
    ELSE "NETWORK_ID" \notin DOMAIN writtenEnv

----------------------------------------------------------------------------
(* C11: when a network is given, no chainId is given and the template's env *)
(* has a CHAIN_ID key, the written CHAIN_ID is the chain id of that         *)
(* Network, for every Network: NETWORK_ID_TO_CHAIN_ID is the exact inverse  *)
(* of CHAIN_ID_TO_NETWORK_ID and has a chain id for each Network.           *)
C11_ChainIdOfNetwork ==
  /\ \A c \in DOMAIN CHAIN_ID_TO_NETWORK_ID :
       NETWORK_ID_TO_CHAIN_ID(CHAIN_ID_TO_NETWORK_ID[c]) = c
  /\ \A n \in Range(Networks) \cup {"unknown-net"} :
       NETWORK_ID_TO_CHAIN_ID(n) # Undefined =>
         CHAIN_ID_TO_NETWORK_ID[NETWORK_ID_TO_CHAIN_ID(n)] = n
  /\ (/\ ConfigPatched
      /\ network \in Range(Networks)
      /\ chainId = Undefined
      /\ "CHAIN_ID" \in DOMAIN templateEnv) =>
       /\ "CHAIN_ID" \in DOMAIN writtenEnv
       /\ writtenEnv["CHAIN_ID"] \in DOMAIN CHAIN_ID_TO_NETWORK_ID
       /\ CHAIN_ID_TO_NETWORK_ID[writtenEnv["CHAIN_ID"]] = network

----------------------------------------------------------------------------
(* C12: when an explicit chainId is given, the written CHAIN_ID equals that *)
(* chainId, whether or not the template had a CHAIN_ID key and whether or   *)
(* not a network is given as well.                                          *)
C12_ExplicitChainIdWins ==
  (ConfigPatched /\ chainId # Undefined) =>
    /\ "CHAIN_ID" \in DOMAIN writtenEnv
    /\ writtenEnv["CHAIN_ID"] = chainId

\* a network and a chainId given together, on a template holding the network's chain id
C12_Witness ==
  /\ ConfigPatched
  /\ network = "base-sepolia"
  /\ chainId = "31337"
  /\ "CHAIN_ID" \in DOMAIN templateEnv
  /\ templateEnv["CHAIN_ID"] = "84532"
  /\ writtenEnv["CHAIN_ID"] = "31337"

----------------------------------------------------------------------------
(* C13: when a model provider is given, the written env has                 *)
(* <PROVIDER>_API_KEY with an empty value and <PROVIDER>_MODEL with the     *)
(* provider's default model, and the two keys are additions: every key the  *)
(* template's env had (NETWORK_ID and CHAIN_ID, which the network and the   *)
(* chainId rewrite, set aside) keeps the value it had in the template.      *)
C13_ProviderKeysAreAdditions ==
  (ConfigPatched /\ modelProvider \in Range(ModelProviders)) =>
    /\ ApiKeyNames[modelProvider] \in DOMAIN writtenEnv
    /\ writtenEnv[ApiKeyNames[modelProvider]] = ""
    /\ ModelNames[modelProvider] \in DOMAIN writtenEnv
    /\ writtenEnv[ModelNames[modelProvider]] = DefaultModels[modelProvider]
    /\ \A k \in DOMAIN templateEnv \ {"NETWORK_ID", "CHAIN_ID"} :
         k \in DOMAIN writtenEnv /\ writtenEnv[k] = templateEnv[k]

----------------------------------------------------------------------------
(* Specification SpecSubstitutions: the steps that substitute text, the     *)
(* config patcher within handleMcpSelection and the source rewriter within  *)
(* handleNextSelection, each with the steps that follow it                  *)

InitSubstitutions == InitUpdate \/ InitMcp

NextSubstitutions == NextUpdate \/ NextMcp

SpecSubstitutions == InitSubstitutions /\ [][NextSubstitutions]_vars

----------------------------------------------------------------------------
createAgentPath == PathJoin(agentDir, "create-agent.ts")

\* the places of text that hold one of the statements
PlacesOf(text, statements) == {i \in DOMAIN text : text[i] \in statements}

\* the first of a set of places, 0 when there is none
FirstOf(places) == IF places = {} THEN 0 ELSE CHOOSE i \in places : \A j \in places : i <= j

HasLanggraphSignature(text) == PlacesOf(text, {LanggraphImport}) # {}

HasAiSdkSignature(text) == PlacesOf(text, {vercelConfig.OpenAI.import}) # {}

(* C14: the source rewriter leaves the text as it was, for every model      *)
(* provider, when the source has neither framework signature (neither the   *)
(* "@langchain/langgraph" import nor the "@ai-sdk/openai" import), and goes *)
(* on without an error.                                                     *)
C14_NoSignatureNoChange ==
  [][(/\ pc = "updateCreateAgent"
      /\ fs[createAgentPath].exists
      /\ ~HasLanggraphSignature(fs[createAgentPath].text)
      /\ ~HasAiSdkSignature(fs[createAgentPath].text)) =>
       /\ fs' = fs
       /\ pc' = "updatePackageJson"
       /\ error' = NoError
    ]_vars

\* a source with the LangChain import, guard and constructor but without the langgraph
\* import, after the rewriter ran for Anthropic
C14_Witness ==
  /\ pc = "updatePackageJson"
  /\ modelProvider = "Anthropic"
  /\ fs[createAgentPath].text =
       <<langchainConfig.OpenAI.import,
         GuardText("process.env.OPENAI_API_KEY", "OPENAI_API_KEY"),
         langchainConfig.OpenAI.constructor,
         "export async function createAgent() {}">>

----------------------------------------------------------------------------
\* text with the first of each set of places replaced by the triple's statement
Substituted(text, imports, guards, constructors, triple) ==
  [i \in DOMAIN text |->
     CASE i = FirstOf(imports) -> triple.import
       [] i = FirstOf(guards) -> GuardText(triple.envVar, triple.envKey)
       [] i = FirstOf(constructors) -> triple.constructor
       [] OTHER -> text[i]]

(* C15: for a source with one framework's signature and for each            *)
(* ModelProvider, the rewritten text is the source with the first match of  *)
(* the import pattern, of the API-key guard pattern and of the construction *)
(* pattern replaced by the import, guard and constructor of that            *)
(* (framework, provider); a pattern without a match does not stop the other *)
(* substitutions, later matches and every other statement are left as they  *)
(* were; with the three patterns present the text holds the whole triple.   *)
C15_RewrittenToProviderTriple ==
  [][(/\ pc = "updateCreateAgent"
      /\ fs[createAgentPath].exists
      /\ modelProvider \in Range(ModelProviders)) =>
       LET text == fs[createAgentPath].text
           guards == {i \in DOMAIN text : MatchesApiKeyCheck(text[i])}
       IN /\ (HasLanggraphSignature(text) /\ ~HasAiSdkSignature(text)) =>
               LET imports == {i \in DOMAIN text : MatchesLangchainImport(text[i])}
                   constructors == {i \in DOMAIN text : MatchesLlmInstantiation(text[i])}
                   triple == langchainConfig[modelProvider]
               IN /\ fs'[createAgentPath] =
                       File(Substituted(text, imports, guards, constructors, triple))
                  /\ (imports # {} /\ guards # {} /\ constructors # {}) =>
                       {triple.import, GuardText(triple.envVar, triple.envKey),
                        triple.constructor} \subseteq Range(fs'[createAgentPath].text)
          /\ (HasAiSdkSignature(text) /\ ~HasLanggraphSignature(text)) =>
               LET imports == {i \in DOMAIN text : MatchesAiSdkImport(text[i])}
                   constructors == {i \in DOMAIN text : MatchesModelInstantiation(text[i])}
                   triple == vercelConfig[modelProvider]
               IN /\ fs'[createAgentPath] =
                       File(Substituted(text, imports, guards, constructors, triple))
                  /\ (imports # {} /\ guards # {} /\ constructors # {}) =>
                       {triple.import, GuardText(triple.envVar, triple.envKey),
                        triple.constructor} \subseteq Range(fs'[createAgentPath].text)
    ]_vars

\* a LangChain source with two imports and no guard, rewritten for Gemini: the first
\* import and the constructor are Gemini's, the second import is as it was
C15_Witness ==
  /\ pc = "updatePackageJson"
  /\ modelProvider = "Gemini"
  /\ fs[createAgentPath].text =
       <<langchainConfig.Gemini.import,
         langchainConfig.OpenAI.import,
         LanggraphImport,
         langchainConfig.Gemini.constructor,
         "export async function createAgent() {}">>

----------------------------------------------------------------------------
(* C18: updatePackageJsonWithModelProvider adds or overwrites exactly the   *)
(* dependency pairs of the selected model provider (the OpenAI pairs when   *)
(* the provider is unset or unrecognized): every other entry of             *)
(* dependencies and every other top-level key of package.json keeps its     *)
(* value, and a manifest without a dependencies mapping gets one holding    *)
(* only those pairs.                                                        *)
C18_OnlyProviderDependenciesChange ==
  [][(pc = "updatePackageJson" /\ packageJson # NoConfig) =>
       LET pairs == IF modelProvider \in Range(ModelProviders)
                    THEN providerDependencies[modelProvider]
                    ELSE providerDependencies.OpenAI
           before == IF "dependencies" \in DOMAIN packageJson
                     THEN packageJson["dependencies"] ELSE EmptyObject
       IN /\ DOMAIN packageJson' = DOMAIN packageJson \cup {"dependencies"}
          /\ \A k \in DOMAIN packageJson \ {"dependencies"} : packageJson'[k] = packageJson[k]
          /\ DOMAIN packageJson'["dependencies"] = DOMAIN pairs \cup DOMAIN before
          /\ \A d \in DOMAIN pairs : packageJson'["dependencies"][d] = pairs[d]
          /\ \A d \in DOMAIN before \ DOMAIN pairs :
               packageJson'["dependencies"][d] = before[d]
    ]_vars

\* the manifest of the template updated for an unrecognized provider: the OpenAI pairs are
\* in, one of them over an older version, and next is as it was
C18_Witness ==
  /\ pc = "rmAgentkit"
  /\ modelProvider = "Mistral"
  /\ packageJson["name"] = "onchain-agent"
  /\ DOMAIN packageJson["dependencies"] = {"next", "@langchain/openai", "@ai-sdk/openai"}
  /\ packageJson["dependencies"]["next"] = "^15.0.0"
  /\ packageJson["dependencies"]["@langchain/openai"] = "^1.2.2"
  /\ packageJson["dependencies"]["@ai-sdk/openai"] = "^3.0.12"

----------------------------------------------------------------------------
\* the patcher is about to run on a template whose first launch argument has no placeholder
PlaceholderMiss ==
  /\ pc = "copyAndReplaceConfig"
  /\ configTemplate # NoConfig
  /\ PlacesOf(configTemplate.mcpServers.agentkit.args[1], {Placeholder}) = {}

\* the patterns of the rewriter's branch for text that match nothing in it: none when no
\* branch is taken
MissedPatterns(text) ==
  LET lang == {<<"import", {i \in DOMAIN text : MatchesLangchainImport(text[i])}>>,
               <<"guard", {i \in DOMAIN text : MatchesApiKeyCheck(text[i])}>>,
               <<"constructor", {i \in DOMAIN text : MatchesLlmInstantiation(text[i])}>>}
      vercel == {<<"import", {i \in DOMAIN text : MatchesAiSdkImport(text[i])}>>,
                 <<"guard", {i \in DOMAIN text : MatchesApiKeyCheck(text[i])}>>,
                 <<"constructor", {i \in DOMAIN text : MatchesModelInstantiation(text[i])}>>}
      branch == IF HasLanggraphSignature(text) THEN lang
                ELSE IF HasAiSdkSignature(text) THEN vercel ELSE {}
  IN {m[1] : m \in {b \in branch : b[2] = {}}}

\* the rewriter is about to run on a source in which a pattern of its branch matches nothing
PatternMiss ==
  /\ pc = "updateCreateAgent"
  /\ fs[createAgentPath].exists
  /\ MissedPatterns(fs[createAgentPath].text) # {}

\* the position a handler is at after the step taken at position, when nothing is thrown
PositionAfter(position) ==
  CASE position = "writeEnv" -> "promotePrepareAgentkit"
    [] position = "promotePrepareAgentkit" -> "promoteCreateAgent"
    [] position = "promoteCreateAgent" -> "promoteApiRoute"
    [] position = "promoteApiRoute" -> "updateCreateAgent"
    [] position = "updateCreateAgent" -> "updatePackageJson"
    [] position = "updatePackageJson" -> "rmAgentkit"
    [] position = "rmAgentkit" -> "rmFramework"
    [] position = "rmFramework" -> "done"
    [] position = "copyAndReplaceConfig" -> "promoteGetAgentKit"
    [] position = "promoteGetAgentKit" -> "rmMcpAgentkit"
    [] position = "rmMcpAgentkit" -> "done"

(* C16: a substitution miss is a silent no-op.  When the template's first   *)
(* launch argument has no placeholder the argument is written as it was,    *)
(* and when a pattern of the source rewriter matches nothing no statement   *)
(* is replaced for it (with the three patterns missing the text is as it    *)
(* was); in both cases no error is raised, the handler goes on to its next  *)
(* step, and it completes: every step after the substitution leads to the   *)
(* following step, the last one to the end, and none throws.                *)
C16_MissIsSilent ==
  [][/\ PlaceholderMiss =>
          /\ pc' = "promoteGetAgentKit"
          /\ error' = NoError
          /\ configWritten'.mcpServers.agentkit.args
               = configTemplate.mcpServers.agentkit.args
     /\ PatternMiss =>
          /\ pc' = "updatePackageJson"
          /\ error' = NoError
          /\ Cardinality({i \in DOMAIN fs[createAgentPath].text :
                            fs'[createAgentPath].text[i] # fs[createAgentPath].text[i]})
               <= 3 - Cardinality(MissedPatterns(fs[createAgentPath].text))
          /\ DOMAIN fs'[createAgentPath].text = DOMAIN fs[createAgentPath].text
     /\ (pc \in McpPositions \cup NextPositions) =>
          (pc' = PositionAfter(pc) /\ error' = NoError)
    ]_vars

\* handleMcpSelection done for a template without a placeholder: the argument is written as
\* the template had it
C16_Witness ==
  /\ pc = "done"
  /\ error = NoError
  /\ mcpConfig # UndefinedConfig
  /\ configWritten # NoConfig
  /\ configWritten.mcpServers.agentkit.args[1] = LaunchArgument(0)

----------------------------------------------------------------------------
\* handleNextSelection returned normally
NextAssembled == pc = "done" /\ agentkitRouteConfig # UndefinedConfig

\* handleMcpSelection returned normally
McpAssembled == pc = "done" /\ mcpConfig # UndefinedConfig

(* C17: after every successful assembly each slot's canonical path holds    *)
(* the selected variant and the per-option subdirectories are gone. For the *)
(* full-app template app/api/agent holds prepare-agentkit.ts (the variant   *)
(* of the family and wallet provider), create-agent.ts (the framework's     *)
(* variant, rewritten for the model provider) and route.ts (the framework's *)
(* variant), and neither agentkit/ nor framework/ nor any file under them   *)
(* exists. For the tool-server template src/getAgentKit.ts is the variant   *)
(* of the family and wallet provider, claude_desktop_config.json has been   *)
(* written at the project root, and src/agentkit/ and the files under it    *)
(* do not exist.                                                            *)
C17_OneFilePerSlot ==
  /\ NextAssembled =>
       LET fam == getNetworkType(network, chainId)
           selectedAgentkit == AgentkitRouteConfigurations[fam][walletProvider]
           selectedFramework == NextTemplateRouteConfigurations[framework]
       IN /\ fs[PathJoin(agentDir, "prepare-agentkit.ts")]
               = File(VariantText(agentkitDir, selectedAgentkit.prepareAgentkitRoute))
          /\ fs[PathJoin(agentDir, "create-agent.ts")]
               = File(UpdatedCreateAgent(
                        CopiedNextTemplate[PathJoin(frameworkDir,
                                                    selectedFramework.createAgentRoute)].text,
                        modelProvider))
          /\ fs[PathJoin(agentDir, "route.ts")]
               = File(VariantText(frameworkDir, selectedFramework.apiRoute))
          /\ \A p \in AgentkitPaths \cup FrameworkPaths : ~fs[p].exists
          /\ agentkitDir \notin dirs
          /\ frameworkDir \notin dirs
  /\ McpAssembled =>
       LET fam == getNetworkType(network, chainId)
           selected == MCPRouteConfigurations[fam][walletProvider]
       IN /\ fs[PathJoin(srcDir, "getAgentKit.ts")]
               = File(VariantText(mcpAgentkitDir, selected.getAgentkitRoute))
          /\ configWritten # NoConfig
          /\ \A p \in McpAgentkitPaths : ~fs[p].exists
          /\ mcpAgentkitDir \notin dirs
          /\ configTemplate = NoConfig

C17_Witness ==
  /\ NextAssembled
  /\ framework = "Vercel AI SDK"
  /\ walletProvider = "SolanaKeypair"
  /\ fs[PathJoin(agentDir, "prepare-agentkit.ts")].text
       = <<"// /home/user/onchain-agent/app/api/agent/agentkit/svm/solanaKeypair/prepare-agentkit.ts">>
  /\ fs[PathJoin(agentDir, "route.ts")].exists

----------------------------------------------------------------------------
\* the selection of the scenario, assembled
AnthropicScenarioAssembled ==
  /\ NextAssembled
  /\ network = "ethereum-mainnet"
  /\ walletProvider = "CDPEvmWallet"
  /\ framework = "Langchain"
  /\ modelProvider = "Anthropic"

(* C19: assembling the full-app template for ethereum-mainnet, CDPEvmWallet, *)
(* Langchain and Anthropic ends with prepare-agentkit.ts being the evm/cdp   *)
(* variant, create-agent.ts holding the Anthropic import, constructor and    *)
(* API-key guard, .env.local holding the lines ANTHROPIC_API_KEY=,           *)
(* ANTHROPIC_MODEL=claude-3-5-sonnet-20241022, NETWORK_ID=ethereum-mainnet,  *)
(* CDP_API_KEY_ID=, CDP_API_KEY_SECRET= and CDP_WALLET_SECRET=, and neither  *)
(* agentkit/ nor framework/ nor a file under them left.                      *)
C19_AnthropicScenario ==
  AnthropicScenarioAssembled =>
    /\ fs[PathJoin(agentDir, "prepare-agentkit.ts")]
         = File(<<"// /home/user/onchain-agent/app/api/agent/agentkit/evm/cdp/prepare-agentkit.ts">>)
    /\ {"import { ChatAnthropic } from \"@langchain/anthropic\";",
         "const llm = new ChatAnthropic({ model: \"claude-3-5-sonnet-20241022\" });",
         "if (!process.env.ANTHROPIC_API_KEY) {\n    throw new Error(\"I need an ANTHROPIC_API_KEY in your .env file to power my intelligence.\");\n  }"}
          \subseteq Range(fs[PathJoin(agentDir, "create-agent.ts")].text)
    /\ {"ANTHROPIC_API_KEY=", "ANTHROPIC_MODEL=claude-3-5-sonnet-20241022",
         "NETWORK_ID=ethereum-mainnet", "CDP_API_KEY_ID=", "CDP_API_KEY_SECRET=",
         "CDP_WALLET_SECRET="}
          \subseteq Range(fs[envPath].text)
    /\ \A p \in AgentkitPaths \cup FrameworkPaths : ~fs[p].exists
    /\ dirs = {}

C19_Witness ==
  /\ AnthropicScenarioAssembled
  /\ chainId = Undefined
  /\ rpcUrl = "http://localhost:8545"
  /\ "RPC_URL=http://localhost:8545" \in Range(fs[envPath].text)
  /\ "@langchain/anthropic" \in DOMAIN packageJson.dependencies

----------------------------------------------------------------------------
\* the errors of the selection checks
SelectionErrors ==
  {"Unsupported network and chainId selected",
   "Selected invalid network & wallet provider combination",
   "Selected invalid framework for this template"}

\* the project root holds the full-app template as the copy left it
NextTemplateAsCopied ==
  /\ fs \in {[CopiedNextTemplate EXCEPT ![envPath] = old] : old \in OldEnvFiles}
  /\ dirs = {agentkitDir, frameworkDir}
  /\ packageJson = PackageJsonTemplate
  /\ configTemplate = NoConfig
  /\ configWritten = NoConfig

\* the project root holds the tool-server template as the copy left it
McpTemplateAsCopied ==
  /\ fs = CopiedMcpTemplate
  /\ dirs = {mcpAgentkitDir}
  /\ packageJson = PackageJsonTemplate
  /\ configTemplate \in ConfigTemplates
  /\ configWritten = NoConfig

(* C20: selection errors come before every change to the destination.       *)
(* Whenever handleNextSelection or handleMcpSelection has ended with one of  *)
(* the selection errors (no family, no route for the family and provider,    *)
(* no route for the framework), every file and directory of the copied       *)
(* template, .env.local, package.json and claude_desktop_config.json are as  *)
(* the copy left them: nothing was written, renamed or deleted.              *)
C20_SelectionErrorLeavesCopyUntouched ==
  (pc = "thrown" /\ error \in SelectionErrors) =>
    (NextTemplateAsCopied \/ McpTemplateAsCopied)

C20_Witness ==
  /\ pc = "thrown"
  /\ error = "Selected invalid framework for this template"
  /\ framework = "Model Context Protocol"
  /\ walletProvider = "Viem"
  /\ network = "base-sepolia"
  /\ fs[envPath] = File(<<"NETWORK_ID=stale-network", "STALE_KEY=1">>)
  /\ NextTemplateAsCopied

----------------------------------------------------------------------------
(* optimizedCopy, copyDir, copyFile: the recursive copy of a template.      *)
(* Every entry of the source has one copy operation; an operation is idle   *)
(* until its parent starts it, then waits for its file-system call (mkdir,  *)
(* readdir, copyFile) or for the Promise.all over its children, and ends    *)
(* resolved or rejected.                                                    *)

\* a directory entry with its parent (undefined for the source itself)
Directory(parent) == [parent |-> parent, isDirectory |-> TRUE]
FileEntry(parent) == [parent |-> parent, isDirectory |-> FALSE]

\* the sources copied: a template directory three levels deep, an empty directory, a file
SourceTrees ==
  {("template" :> Directory(Undefined))
     @@ ("template/package.json" :> FileEntry("template"))
     @@ ("template/src" :> Directory("template"))
     @@ ("template/src/index.ts" :> FileEntry("template/src"))
     @@ ("template/src/agentkit" :> Directory("template/src"))
     @@ ("template/src/agentkit/getAgentKit.ts" :> FileEntry("template/src/agentkit")),
   ("empty" :> Directory(Undefined)),
   ("README.md" :> FileEntry(Undefined))}

\* the source: the entry without parent
Source == CHOOSE e \in DOMAIN srcTree : srcTree[e].parent = Undefined

\* readdir: the entries of a directory
Entries(dir) == {e \in DOMAIN srcTree : srcTree[e].parent = dir}

\* the operation an entry's copy starts with: copyDir awaits mkdir, copyFile awaits fs.copyFile
Started(entry) == IF srcTree[entry].isDirectory THEN "mkdir" ELSE "copyFile"

Pending == {"mkdir", "readdir", "copyFile"}
Settled == {"resolved", "rejected"}

InitCopy ==
  /\ pc = "optimizedCopy"
  /\ error = NoError
  /\ NoAssembly
  /\ NoAdapter
  /\ srcTree \in SourceTrees
  /\ copyOp = [e \in DOMAIN srcTree |-> "idle"]
  /\ destTree = {}

\* lines 416-422: stat, then copyDir or copyFile on the source
OptimizedCopy ==
  /\ pc = "optimizedCopy"
  /\ copyOp' = [copyOp EXCEPT ![Source] = Started(Source)]
  /\ pc' = "copying"
  /\ UNCHANGED <<error, argVars, promptVars, localVars, diskVars, adapterVars, srcTree,
                 destTree>>

\* line 394: fs.mkdir(dest, { recursive: true }) succeeds
Mkdir ==
  /\ \E dir \in DOMAIN copyOp :
       /\ copyOp[dir] = "mkdir"
       /\ destTree' = destTree \cup {dir}
       /\ copyOp' = [copyOp EXCEPT ![dir] = "readdir"]
  /\ UNCHANGED <<pc, error, argVars, promptVars, localVars, diskVars, adapterVars, srcTree>>

\* lines 395-406: readdir succeeds and entries.map starts the copy of every entry at once
Readdir ==
  /\ \E dir \in DOMAIN copyOp :
       /\ copyOp[dir] = "readdir"
       /\ copyOp' = [e \in DOMAIN copyOp |->
                       IF e = dir THEN "Promise.all"
                       ELSE IF e \in Entries(dir) THEN Started(e)
                       ELSE copyOp[e]]
  /\ UNCHANGED <<pc, error, argVars, promptVars, localVars, diskVars, adapterVars, srcTree,
                 destTree>>

\* line 383: fs.copyFile succeeds
CopyFile ==
  /\ \E file \in DOMAIN copyOp :
       /\ copyOp[file] = "copyFile"
       /\ destTree' = destTree \cup {file}
       /\ copyOp' = [copyOp EXCEPT ![file] = "resolved"]
  /\ UNCHANGED <<pc, error, argVars, promptVars, localVars, diskVars, adapterVars, srcTree>>

\* the awaited mkdir, readdir or copyFile of an entry rejects
CallRejects ==
  /\ \E e \in DOMAIN copyOp :
       /\ copyOp[e] \in Pending
       /\ copyOp' = [copyOp EXCEPT ![e] = "rejected"]
  /\ UNCHANGED <<pc, error, argVars, promptVars, localVars, diskVars, adapterVars, srcTree,
                 destTree>>

\* a combinator that fulfils with the first entry's promise that fulfils
AllResolved_FirstResolved ==
  /\ \E dir \in DOMAIN copyOp :
       /\ copyOp[dir] = "Promise.all"
       /\ \E e \in Entries(dir) : copyOp[e] = "resolved"
       /\ copyOp' = [copyOp EXCEPT ![dir] = "resolved"]
  /\ UNCHANGED <<pc, error, argVars, promptVars, localVars, diskVars, adapterVars, srcTree,
                 destTree>>

\* line 398: Promise.all fulfils when every entry's promise has fulfilled
AllResolved ==
  /\ \E dir \in DOMAIN copyOp :
       /\ copyOp[dir] = "Promise.all"
       /\ \A e \in Entries(dir) : copyOp[e] = "resolved"
       /\ copyOp' = [copyOp EXCEPT ![dir] = "resolved"]
  /\ UNCHANGED <<pc, error, argVars, promptVars, localVars, diskVars, adapterVars, srcTree,
                 destTree>>

\* a rejection that takes the written entries of the directory back and stops the others
AnyRejected_RollsBack ==
  /\ \E dir \in DOMAIN copyOp :
       /\ copyOp[dir] = "Promise.all"
       /\ \E e \in Entries(dir) : copyOp[e] = "rejected"
       /\ copyOp' = [e \in DOMAIN copyOp |->
                       IF e = dir \/ (e \in Entries(dir) /\ copyOp[e] \in Pending)
                       THEN "rejected"
                       ELSE copyOp[e]]
       /\ destTree' = destTree \ Entries(dir)
  /\ UNCHANGED <<pc, error, argVars, promptVars, localVars, diskVars, adapterVars, srcTree>>

\* line 398: Promise.all rejects as soon as one entry's promise has rejected
AnyRejected ==
  /\ \E dir \in DOMAIN copyOp :
       /\ copyOp[dir] = "Promise.all"
       /\ \E e \in Entries(dir) : copyOp[e] = "rejected"
       /\ copyOp' = [copyOp EXCEPT ![dir] = "rejected"]
  /\ UNCHANGED <<pc, error, argVars, promptVars, localVars, diskVars, adapterVars, srcTree,
                 destTree>>

\* lines 419, 421: the awaited copy of the source has fulfilled
CopyReturns ==
  /\ pc = "copying"
  /\ copyOp[Source] = "resolved"
  /\ pc' = "copied"
  /\ UNCHANGED <<error, argVars, promptVars, localVars, diskVars, adapterVars, copyVars>>

\* lines 419, 421: the awaited copy of the source has rejected
CopyThrows ==
  /\ pc = "copying"
  /\ copyOp[Source] = "rejected"
  /\ Throw(IoError)
  /\ UNCHANGED <<argVars, promptVars, localVars, diskVars, adapterVars, copyVars>>

NextCopy ==
  \/ OptimizedCopy
  \/ Mkdir
  \/ Readdir
  \/ CopyFile
  \/ CallRejects
  \/ AllResolved
  \/ AnyRejected
  \/ CopyReturns
  \/ CopyThrows

SpecCopy == InitCopy /\ [][NextCopy]_vars

\* the reactions to a settled promise are run: a rejection is passed on to the awaiting caller
SpecCopyFair == SpecCopy /\ WF_vars(AnyRejected) /\ WF_vars(CopyThrows)

----------------------------------------------------------------------------
(* createVercelAIModel (ai/providers/vercel-adapter.ts), called any number  *)
(* of times in one process.                                                 *)

ApiKeyVariables == {"OPENAI_API_KEY", "GOOGLE_GENERATIVE_AI_API_KEY", "ANTHROPIC_API_KEY"}

\* what a variable of process.env may hold when the process starts
StartValues == {Undefined, "", "sk-start"}

ProviderInputs == {"OpenAI", "Gemini", "Anthropic", "Mistral"}
ApiKeyInputs == {"", "sk-first", "sk-second"}
ModelInputs == {"gpt-4o-mini"}

\* the three assignments made whatever the variable holds
SetApiKey_Overwrites(env, provider, apiKey) ==
  CASE Truthy(apiKey) /\ provider = "OpenAI" -> [env EXCEPT !["OPENAI_API_KEY"] = apiKey]
    [] Truthy(apiKey) /\ provider = "Gemini" ->
         [env EXCEPT !["GOOGLE_GENERATIVE_AI_API_KEY"] = apiKey]
    [] Truthy(apiKey) /\ provider = "Anthropic" -> [env EXCEPT !["ANTHROPIC_API_KEY"] = apiKey]
    [] OTHER -> env

\* lines 18-26: the three conditional assignments to process.env, in their order
SetApiKey(env, provider, apiKey) ==
  LET e1 == IF Truthy(apiKey) /\ ~Truthy(env["OPENAI_API_KEY"]) /\ provider = "OpenAI"
            THEN [env EXCEPT !["OPENAI_API_KEY"] = apiKey]
            ELSE env
      e2 == IF /\ Truthy(apiKey)
               /\ ~Truthy(e1["GOOGLE_GENERATIVE_AI_API_KEY"])
               /\ provider = "Gemini"
            THEN [e1 EXCEPT !["GOOGLE_GENERATIVE_AI_API_KEY"] = apiKey]
            ELSE e1
  IN IF Truthy(apiKey) /\ ~Truthy(e2["ANTHROPIC_API_KEY"]) /\ provider = "Anthropic"
     THEN [e2 EXCEPT !["ANTHROPIC_API_KEY"] = apiKey]
     ELSE e2

\* lines 28-40: the factory the switch calls, none for an unsupported provider
ModelFactory(provider) ==
  CASE provider = "OpenAI" -> "openai"
    [] provider = "Gemini" -> "google"
    [] provider = "Anthropic" -> "anthropic"
    [] OTHER -> Undefined

InitAdapter ==
  /\ pc = "createVercelAIModel"
  /\ error = NoError
  /\ NoAssembly
  /\ NoCopy
  /\ processEnv \in [ApiKeyVariables -> StartValues]
  /\ call = NoCall

CreateVercelAIModel ==
  /\ pc = "createVercelAIModel"
  /\ \E provider \in ProviderInputs, apiKey \in ApiKeyInputs, model \in ModelInputs :
       /\ processEnv' = SetApiKey(processEnv, provider, apiKey)
       /\ call' = [made |-> TRUE, provider |-> provider, apiKey |-> apiKey, model |-> model,
                   returned |-> IF ModelFactory(provider) = Undefined
                                THEN <<>>
                                ELSE <<ModelFactory(provider), model>>]
       /\ error' = IF ModelFactory(provider) = Undefined
                   THEN "Unsupported provider: " \o provider
                   ELSE NoError
  /\ UNCHANGED <<pc, argVars, promptVars, localVars, diskVars, copyVars>>

NextAdapter == CreateVercelAIModel

SpecAdapter == InitAdapter /\ [][NextAdapter]_vars

\* the variable of process.env that belongs to a provider
VariableOf(provider) ==
  CASE provider = "OpenAI" -> "OPENAI_API_KEY"
    [] provider = "Gemini" -> "GOOGLE_GENERATIVE_AI_API_KEY"
    [] provider = "Anthropic" -> "ANTHROPIC_API_KEY"
    [] OTHER -> Undefined

(* C29: createVercelAIModel never overwrites an API-key variable that is    *)
(* already set. In every call a variable holding a non-empty key keeps it,  *)
(* so over any sequence of calls each variable keeps the first non-empty    *)
(* key stored in it; a call changes at most one variable, the one of the    *)
(* provider it was called with, and only to the non-empty key it was given. *)
C29_FirstKeyKept ==
  [][/\ \A v \in ApiKeyVariables : Truthy(processEnv[v]) => processEnv'[v] = processEnv[v]
     /\ Cardinality({v \in ApiKeyVariables : processEnv'[v] # processEnv[v]}) <= 1
     /\ \A v \in ApiKeyVariables :
          processEnv'[v] # processEnv[v] =>
            /\ v = VariableOf(call'.provider)
            /\ processEnv'[v] = call'.apiKey
            /\ Truthy(call'.apiKey)
    ]_vars

\* a call for Gemini with a second key found the first key stored and left it
C29_Witness ==
  /\ call # NoCall
  /\ call.provider = "Gemini"
  /\ call.apiKey = "sk-second"
  /\ processEnv["GOOGLE_GENERATIVE_AI_API_KEY"] = "sk-first"
  /\ processEnv["OPENAI_API_KEY"] = ""
  /\ processEnv["ANTHROPIC_API_KEY"] = Undefined

----------------------------------------------------------------------------
(* handleNextSelection called again on the project root it assembled, with  *)
(* the same arguments.                                                      *)

Rerun ==
  /\ pc = "done"
  /\ agentkitRouteConfig # UndefinedConfig
  /\ pc' = "handleNextSelection"
  /\ networkFamily' = Undefined
  /\ agentkitRouteConfig' = UndefinedConfig
  /\ frameworkRouteConfig' = UndefinedConfig
  /\ mcpConfig' = UndefinedConfig
  /\ envLines' = <<>>
  /\ UNCHANGED <<copyVars, adapterVars>>
  /\ UNCHANGED <<error, argVars, promptVars, diskVars>>

NextRerun == NextNext \/ Rerun

SpecRerun == InitNext /\ [][NextRerun]_vars

\* a state of the second run: the directories are gone and the handler has not returned
SecondRun == dirs = {} /\ pc # "done"

(* C28: assembly is not re-runnable on its own output. A second             *)
(* handleNextSelection on the root of a successful first one, with the same *)
(* arguments, passes the selection checks, writes .env.local with the       *)
(* content it already has, and fails at the first promotion because the     *)
(* selected file is gone with its directory; the promoted canonical files   *)
(* and package.json stay as the first run left them.                        *)
C28_SecondRunFailsAtFirstPromotion ==
  [][SecondRun =>
       /\ pc = "handleNextSelection" => (pc' = "writeEnv" /\ error' = NoError)
       /\ pc = "writeEnv" =>
            /\ pc' = "promotePrepareAgentkit"
            /\ fs[PathJoin(root, ".env.local")].exists
            /\ fs'[PathJoin(root, ".env.local")] = fs[PathJoin(root, ".env.local")]
       /\ pc = "promotePrepareAgentkit" =>
            /\ pc' = "thrown"
            /\ error' = "ENOENT: no such file or directory, rename"
       /\ pc \in {"handleNextSelection", "writeEnv", "promotePrepareAgentkit"}
       /\ \A q \in PromotedNextPaths : fs'[q] = fs[q] /\ fs[q].exists
       /\ UNCHANGED <<packageJson, dirs>>
    ]_vars

\* the second run has failed, the output of the first in place
C28_Witness ==
  /\ pc = "thrown"
  /\ error = "ENOENT: no such file or directory, rename"
  /\ dirs = {}
  /\ modelProvider = "Anthropic"
  /\ "@langchain/anthropic" \in DOMAIN packageJson.dependencies
  /\ \A q \in PromotedNextPaths : fs[q].exists
  /\ fs[PathJoin(root, ".env.local")] = File(JoinLines(envLines))

----------------------------------------------------------------------------
(* I/O failures: the awaited file-system call of a step rejects, and the    *)
(* rejection leaves the handler as its error (no handler has a try block).  *)

\* a failure handler that removes what the run put under the project root
IoFailure_CleansUp ==
  /\ pc \in NextPositions \cup McpPositions
  /\ Throw(IoError)
  /\ fs' = [q \in DOMAIN fs |-> NoFile]
  /\ dirs' = {}
  /\ UNCHANGED <<copyVars, adapterVars>>
  /\ UNCHANGED <<argVars, promptVars, localVars, configTemplate, configWritten, packageJson>>

\* the call of the step at hand rejects: nothing is written by the step, nothing is undone
IoFailure ==
  /\ pc \in NextPositions \cup McpPositions
  /\ Throw(IoError)
  /\ UNCHANGED <<copyVars, adapterVars>>
  /\ UNCHANGED <<argVars, promptVars, localVars, diskVars>>

NextFailures == NextHandlers \/ IoFailure

SpecFailures == InitHandlers /\ [][NextFailures]_vars

(* C22: there is no rollback. When the step at hand fails with an I/O error *)
(* the handler ends with that error, the failing step leaves the disk as    *)
(* the steps before it made it, and no step runs afterwards: .env.local     *)
(* stays written, files already promoted stay at their canonical paths, a   *)
(* configuration already written stays, and the per-option subdirectories   *)
(* that were not yet deleted are not deleted.                               *)
C22_NoRollback ==
  [][/\ pc # "thrown"
     /\ (pc' = "thrown" /\ error' \notin SelectionErrors) =>
          /\ error' = IoError
          /\ UNCHANGED diskVars
     /\ (pc' = "thrown" /\ pc \in NextPositions \ {"writeEnv"}) =>
          fs'[PathJoin(root, ".env.local")] = File(JoinLines(envLines))
     /\ (pc' = "thrown" /\ pc \in NextPositions \ {"writeEnv", "promotePrepareAgentkit"}) =>
          fs'[PathJoin(agentDir, "prepare-agentkit.ts")].exists
     /\ (pc' = "thrown" /\ pc \in {"updateCreateAgent", "updatePackageJson", "rmAgentkit"}) =>
          /\ fs'[PathJoin(agentDir, "create-agent.ts")].exists
          /\ fs'[PathJoin(agentDir, "route.ts")].exists
          /\ dirs' = {agentkitDir, frameworkDir}
     /\ (pc' = "thrown" /\ pc \in {"promoteGetAgentKit", "rmMcpAgentkit"}) =>
          /\ configWritten' # NoConfig
          /\ dirs' = {mcpAgentkitDir}
    ]_vars

\* the second promotion failed: the first promoted file and .env.local are there
C22_Witness ==
  /\ pc = "thrown"
  /\ error = IoError
  /\ DOMAIN fs = NextPaths
  /\ fs[PathJoin(agentDir, "prepare-agentkit.ts")].exists
  /\ ~fs[PathJoin(agentDir, "create-agent.ts")].exists
  /\ fs[PathJoin(root, ".env.local")] = File(JoinLines(envLines))
  /\ dirs = {agentkitDir, frameworkDir}
  /\ packageJson = PackageJsonTemplate

----------------------------------------------------------------------------
\* the canonical paths of the full-app template and of the tool-server template
prepareAgentkitPath == PathJoin(agentDir, "prepare-agentkit.ts")
apiRoutePath == PathJoin(agentDir, "route.ts")
getAgentKitPath == PathJoin(srcDir, "getAgentKit.ts")

\* the project root holds the full-app template, the tool-server template
OnNextTemplate == DOMAIN fs = NextPaths
OnMcpTemplate == DOMAIN fs = McpPaths

\* the variant files selected from agentkit/ and from framework/
SelectedAgentkitPath == PathJoin(agentkitDir, agentkitRouteConfig.prepareAgentkitRoute)
SelectedFrameworkPaths ==
  {PathJoin(frameworkDir, frameworkRouteConfig.createAgentRoute),
   PathJoin(frameworkDir, frameworkRouteConfig.apiRoute)}

\* a file is at the canonical path and no longer at the path it was selected from
PromotedFrom(selected, canonical) == fs[canonical].exists /\ ~fs[selected].exists

(* C21: the assembly steps run one after another in the order: write the    *)
(* environment or configuration artifact, promote the selected variants,    *)
(* rewrite the promoted create-agent.ts, mutate package.json, delete the    *)
(* per-option subdirectories. Every step that changes an artifact finds the *)
(* artifacts of the earlier steps done and those of the later steps not     *)
(* begun: .env.local is written before any promotion, a promotion happens   *)
(* with .env.local written and package.json untouched, create-agent.ts is   *)
(* rewritten at its canonical path with all three files promoted,           *)
(* package.json is mutated after the rewrite with both directories present, *)
(* and a directory is deleted only when every file selected from it has     *)
(* been promoted (for the tool-server template: the configuration is        *)
(* written from the template before the promotion, and src/agentkit is      *)
(* deleted after both).                                                     *)
C21_StepsInOrder ==
  [][/\ OnNextTemplate =>
          /\ fs'[envPath] # fs[envPath] =>
               /\ \A q \in PromotedNextPaths : ~fs[q].exists
               /\ \A q \in DOMAIN fs \ {envPath} : fs'[q] = fs[q]
               /\ UNCHANGED <<packageJson, dirs>>
          /\ (\E q \in PromotedNextPaths : fs'[q].exists /\ ~fs[q].exists) =>
               /\ fs[envPath] = File(JoinLines(envLines))
               /\ packageJson = PackageJsonTemplate
               /\ dirs = {agentkitDir, frameworkDir}
               /\ UNCHANGED <<packageJson, dirs>>
          /\ pc = "updateCreateAgent" =>
               /\ PromotedFrom(SelectedAgentkitPath, prepareAgentkitPath)
               /\ \A q \in SelectedFrameworkPaths : ~fs[q].exists
               /\ fs[createAgentPath].exists /\ fs[apiRoutePath].exists
               /\ \A q \in DOMAIN fs \ {createAgentPath} : fs'[q] = fs[q]
               /\ packageJson = PackageJsonTemplate
               /\ dirs = {agentkitDir, frameworkDir}
               /\ UNCHANGED <<packageJson, dirs>>
          /\ (fs[createAgentPath].exists /\ fs'[createAgentPath] # fs[createAgentPath]) =>
               pc = "updateCreateAgent"
          /\ packageJson' # packageJson =>
               /\ fs[createAgentPath].exists
               /\ fs[createAgentPath].text
                    = UpdatedCreateAgent(
                        CopiedNextTemplate[PathJoin(frameworkDir,
                                                    frameworkRouteConfig.createAgentRoute)].text,
                        modelProvider)
               /\ dirs = {agentkitDir, frameworkDir}
               /\ UNCHANGED <<fs, dirs>>
          /\ dirs' # dirs =>
               /\ PromotedFrom(SelectedAgentkitPath, prepareAgentkitPath)
               /\ \A q \in SelectedFrameworkPaths : ~fs[q].exists
               /\ fs[createAgentPath].exists /\ fs[apiRoutePath].exists
               /\ packageJson = UpdatedPackageJson(PackageJsonTemplate, modelProvider)
               /\ \A q \in PromotedNextPaths \cup {envPath} : fs'[q] = fs[q]
               /\ UNCHANGED packageJson
     /\ OnMcpTemplate =>
          /\ configWritten' # configWritten =>
               /\ configTemplate # NoConfig
               /\ ~fs[getAgentKitPath].exists
               /\ dirs = {mcpAgentkitDir}
               /\ UNCHANGED <<fs, dirs, configTemplate>>
          /\ fs'[getAgentKitPath] # fs[getAgentKitPath] =>
               /\ configWritten # NoConfig
               /\ dirs = {mcpAgentkitDir}
               /\ UNCHANGED <<configWritten, dirs, configTemplate>>
          /\ (dirs' # dirs \/ configTemplate' # configTemplate) =>
               /\ configWritten # NoConfig
               /\ PromotedFrom(PathJoin(mcpAgentkitDir, mcpConfig.getAgentkitRoute),
                               getAgentKitPath)
               /\ fs'[getAgentKitPath] = fs[getAgentKitPath]
               /\ UNCHANGED configWritten
    ]_vars

\* handleNextSelection is past its deletions, every earlier artifact in place
C21_Witness ==
  /\ NextAssembled
  /\ dirs = {}
  /\ modelProvider = "Gemini"
  /\ framework = "Vercel AI SDK"
  /\ "@ai-sdk/google" \in DOMAIN packageJson.dependencies
  /\ fs[createAgentPath].exists

----------------------------------------------------------------------------
\* the variable names a rendered .env.local can assign
EnvNames ==
  UNION {UNION {Range(AgentkitRouteConfigurations[fam][wp].env.required)
                  \cup Range(AgentkitRouteConfigurations[fam][wp].env.optional) :
                wp \in DOMAIN AgentkitRouteConfigurations[fam]} :
         fam \in DOMAIN AgentkitRouteConfigurations}
    \cup {"NETWORK_ID", "RPC_URL", "CHAIN_ID"}
    \cup Range(ApiKeyNames) \cup Range(ModelNames)

\* the values a rendered .env.local can assign
EnvValues ==
  {""} \cup ((NetworkArgs \cup ChainIdArgs \cup RpcUrlArgs) \ {Undefined})
       \cup Range(DefaultModels)

\* the line assigns the name
Assigns(line, name) == \E v \in EnvValues : line = name \o "=" \o v

\* the places of the text that assign the name
AssignmentsOf(text, name) == {i \in DOMAIN text : Assigns(text[i], name)}

(* C25: in the .env.local rendered by handleNextSelection no variable name  *)
(* is assigned on more than one line, for every entry of the agent-route    *)
(* table, every model provider and every combination of network, chainId    *)
(* and rpcUrl being supplied or not.                                        *)
C25_NoNameAssignedTwice ==
  EnvWritten =>
    \A name \in EnvNames : Cardinality(AssignmentsOf(fs[envPath].text, name)) <= 1

----------------------------------------------------------------------------
\* the variable names an API-key guard of create-agent.ts can test
GuardedNames ==
  {langchainConfig[mp].envKey : mp \in DOMAIN langchainConfig}
    \cup {vercelConfig[mp].envKey : mp \in DOMAIN vercelConfig}

\* the names whose guard is in the text
GuardsIn(text) ==
  {name \in GuardedNames : GuardText("process.env." \o name, name) \in Range(text)}

(* C26: for every framework and every model provider, the variable that the *)
(* API-key guard of the rewritten create-agent.ts tests is the variable of  *)
(* the API-key line written into .env.local: the assembled create-agent.ts  *)
(* holds one guard, and .env.local assigns the guarded name.                *)
C26_GuardedKeyIsRenderedKey ==
  NextAssembled =>
    /\ Cardinality(GuardsIn(fs[createAgentPath].text)) = 1
    /\ \A name \in GuardsIn(fs[createAgentPath].text) :
         AssignmentsOf(fs[envPath].text, name) # {}

----------------------------------------------------------------------------
\* the provider a run configures: the requested one, OpenAI when unset or unrecognized
ConfiguredProvider == IF modelProvider \in DOMAIN DefaultModels THEN modelProvider ELSE "OpenAI"

\* the construction expression of a framework and provider for a model name
ConstructionOf(fw, mp, model) ==
  IF fw = "Langchain"
  THEN "const llm = new "
         \o (CASE mp = "OpenAI" -> "ChatOpenAI"
               [] mp = "Gemini" -> "ChatGoogleGenerativeAI"
               [] mp = "Anthropic" -> "ChatAnthropic")
         \o "({ model: \"" \o model \o "\" });"
  ELSE "const model = "
         \o (CASE mp = "OpenAI" -> "openai"
               [] mp = "Gemini" -> "google"
               [] mp = "Anthropic" -> "anthropic")
         \o "(\"" \o model \o "\");"

(* C27: for every framework and every model provider, the model name in the *)
(* construction expression that the rewriter writes into create-agent.ts is *)
(* the provider's default model of DefaultModels, which is also the value   *)
(* of the provider's _MODEL line in .env.local.                             *)
C27_ConstructedModelIsDefaultModel ==
  NextAssembled =>
    /\ ConstructionOf(framework, ConfiguredProvider, DefaultModels[ConfiguredProvider])
         \in Range(fs[createAgentPath].text)
    /\ (ModelNames[ConfiguredProvider] \o "=" \o DefaultModels[ConfiguredProvider])
         \in Range(fs[envPath].text)

----------------------------------------------------------------------------
\* the copy operation of the entry has been started and has not settled
InFlight(e) == copyOp[e] \in Pending \cup {"Promise.all"}

(* C23: in the recursive template copy the children of a directory are      *)
(* copied concurrently, and a directory's copy operation completes,          *)
(* fulfilled or rejected, only after every one of its child copy operations  *)
(* has completed: no child operation of a settled directory operation is     *)
(* still in flight. When the copy of the whole tree succeeds every entry of  *)
(* the source exists at the destination, and an entry exists at the          *)
(* destination only when its directory does.                                 *)
C23_DirectoryCompletesAfterChildren ==
  /\ \A dir \in DOMAIN copyOp :
       copyOp[dir] \in Settled => \A e \in Entries(dir) : ~InFlight(e)
  /\ pc = "copied" => destTree = DOMAIN srcTree
  /\ \A e \in destTree : srcTree[e].parent = Undefined \/ srcTree[e].parent \in destTree

(* C23, amended: a directory's copy operation fulfils only after every one  *)
(* of its child copy operations has fulfilled; it rejects when its own      *)
(* mkdir or readdir has rejected (no child was started) or as soon as one   *)
(* child operation has rejected, which can be while other child operations  *)
(* are still in flight. When the copy of the whole tree succeeds every      *)
(* entry of the source exists at the destination, and an entry exists at    *)
(* the destination only when its directory does.                            *)
C23_DirectoryFulfilsAfterChildren ==
  /\ \A dir \in DOMAIN copyOp :
       /\ copyOp[dir] = "resolved" => \A e \in Entries(dir) : copyOp[e] = "resolved"
       /\ (copyOp[dir] = "rejected" /\ srcTree[dir].isDirectory) =>
            \/ \A e \in Entries(dir) : copyOp[e] = "idle"
            \/ \E e \in Entries(dir) : copyOp[e] = "rejected"
  /\ pc = "copied" => destTree = DOMAIN srcTree
  /\ \A e \in destTree : srcTree[e].parent = Undefined \/ srcTree[e].parent \in destTree

\* the copy of the template has been rejected for package.json while src is being copied,
\* beside it and below it
C23_Witness ==
  /\ "template" \in DOMAIN copyOp
  /\ copyOp["template"] = "rejected"
  /\ copyOp["template/package.json"] = "rejected"
  /\ copyOp["template/src"] = "Promise.all"
  /\ copyOp["template/src/index.ts"] = "copyFile"
  /\ copyOp["template/src/agentkit"] = "readdir"
  /\ destTree = {"template", "template/src", "template/src/agentkit"}

----------------------------------------------------------------------------
(* C24: in the recursive template copy, if the copy of a child at any depth *)
(* fails, the copy of every enclosing directory and so the whole copy       *)
(* fails: a directory with a rejected child never fulfils, the copy never   *)
(* returns normally, and the rejection reaches optimizedCopy's caller.      *)
(* Nothing written is taken back (no entry ever leaves the destination),    *)
(* and the other child copies are not cancelled: an operation is rejected   *)
(* only by its own file-system call or by one of its own children, and the  *)
(* step that rejects one operation changes no other.                        *)
C24_ChildFailureFailsTheCopy ==
  /\ [](\A dir \in DOMAIN copyOp :
          (\E e \in Entries(dir) : copyOp[e] = "rejected") => copyOp[dir] # "resolved")
  /\ []((\E e \in DOMAIN copyOp : copyOp[e] = "rejected") => pc # "copied")
  /\ ((\E e \in DOMAIN copyOp : copyOp[e] = "rejected") ~> (pc = "thrown" /\ error = IoError))
  /\ [][/\ destTree \subseteq destTree'
        /\ \A e \in DOMAIN copyOp :
             (copyOp'[e] = "rejected" /\ copyOp[e] # "rejected") =>
               /\ \/ copyOp[e] \in Pending
                  \/ copyOp[e] = "Promise.all" /\ \E c \in Entries(e) : copyOp[c] = "rejected"
               /\ \A o \in DOMAIN copyOp \ {e} : copyOp'[o] = copyOp[o]
       ]_vars

\* the copy failed for the deepest file; the files beside its directories were written
C24_Witness ==
  /\ pc = "thrown"
  /\ error = IoError
  /\ "template" \in DOMAIN copyOp
  /\ copyOp["template/src/agentkit/getAgentKit.ts"] = "rejected"
  /\ copyOp["template/src/index.ts"] = "resolved"
  /\ copyOp["template/package.json"] = "resolved"
  /\ destTree = DOMAIN srcTree \ {"template/src/agentkit/getAgentKit.ts"}

====
